---- MODULE Spec2Model ----
(***************************************************************************)
(* Model of the conference paper downloader (src/base.py):                 *)
(*   - Spec:      download_all_papers / download_single_paper, the thread  *)
(*                pool and the PDF files on disk;                          *)
(*   - SpecPaper: the same on a list of one paper, with the requests the   *)
(*                resolution sends recorded;                               *)
(*   - SpecRate:  wait_for_arxiv_rate_limit and the query loop of          *)
(*                search_arxiv against a clock, with max_workers threads;  *)
(*   - SpecMatch: the entry loop of search_arxiv that selects best_match;  *)
(*   - SpecSearch: search_arxiv from the cleaning of the title to its      *)
(*                return, one step per query variant;                      *)
(*   - SpecSim:   title_similarity and author_similarity on small texts;   *)
(*   - SpecRun:   run, from the listing pages to the summary report, for   *)
(*                base.py, main.py and neurips_oral.py;                    *)
(*   - SpecUrl:   get_pdf_url_from_openreview on small URLs;               *)
(*   - SpecRetry: the retry loops of download_pdf in iclr_oral.py and      *)
(*                neurips_oral.py and of get_openreview_url in             *)
(*                iclr_oral.py; SpecRetryFair adds that every step ends.   *)
(*   - SpecBatch: download_all_papers of iclr_oral.py and                  *)
(*                neurips_oral.py, run twice over the same files;          *)
(*   - SpecScroll: the scroll loop of fetch_paper_list_selenium in         *)
(*                cvpr.py, where every iteration ends.                     *)
(***************************************************************************)
EXTENDS Integers, Sequences, FiniteSets, TLC

VARIABLES
    \* ---- download_all_papers / download_single_paper (Spec)
    future_to_paper,\* the papers download_all_papers was given
    keys,           \* which keys each paper record has
    observe,        \* whether gets and first_run are recorded
    file,           \* pdf_filename of each paper on disk: [exists, size]
    pc,             \* position of each paper's download_single_paper task
    paper,          \* the input record of each paper (the caller's dict)
    result,         \* the record download_single_paper returned
    gets,           \* requests sent for the paper in this run
    results,        \* results['success'], ['exists'], ['failed']
    main_pc,        \* position of download_all_papers
    first_run,      \* download_status each paper got in the previous run
    pdf_response,   \* what the last download_pdf call got from its URL
    \* ---- search_arxiv entry loop (SpecMatch)
    entries,        \* soup.find_all('entry')
    entry_idx,      \* position of the for loop over entries
    best_match,     \* index of the entry whose href is best_match (0: None)
    best_score,     \* best_score, in 1/100
    match_pc,       \* "scan" | "returned"
    \* ---- wait_for_arxiv_rate_limit / search_arxiv query loop (SpecRate)
    now,                        \* time.time()
    arxiv_last_request_time,    \* self.arxiv_last_request_time
    rl_pc,                      \* position of each worker thread
    current_time,               \* local current_time of each worker
    wake_time,                  \* when the worker's time.sleep may return
    queries_left,               \* search_strategies still to send
    calls,                      \* search_arxiv calls made so far
    writes,                     \* the two most recent writes of arxiv_last_request_time
    get_log,                    \* times of the two most recent search GETs
    \* ---- search_arxiv, title cleaning and query variants (SpecSearch)
    title,              \* the title search_arxiv was given
    clean_title,        \* clean_title, None before it is computed
    search_strategies,  \* the query variants built
    strategy_idx,       \* position of the for loop over search_strategies
    response,           \* what the last query variant got
    sent,               \* GETs sent by this call
    parsed,             \* responses handed to BeautifulSoup by this call
    search_pc,          \* "clean" | "build" | "query" | "returned"
    search_result,      \* the value search_arxiv returned
    \* ---- title_similarity / author_similarity (SpecSim)
    text1,              \* first argument
    text2,              \* second argument
    sim_pc,             \* "title" | "authors" | "done"
    score,              \* the value returned: [num, den], or "raised"
    \* ---- run: get_paper_list, download_all_papers, generate_summary_report (SpecRun)
    program,            \* the file whose run() this is: "base" | "main" | "neurips"
    event_idx,          \* position of the for loop over event_types
    listing,            \* what the last listing page answered
    all_papers,         \* len(all_papers)
    run_results,        \* results as download_all_papers returned it
    report,             \* the report written, None before
    run_pc,             \* "listing" | "report" | "done" | "raised"
    \* ---- get_pdf_url_from_openreview (SpecUrl)
    url_in,             \* openreview_url: NoneValue, or Str of its pieces
    url_out,            \* the value returned
    url_pc,             \* "called" | "returned"
    \* ---- download_pdf with retries, iclr_oral.py and neurips_oral.py (SpecRetry)
    downloader,         \* "iclr" | "neurips" | "iclr_page"
    attempt,            \* the loop variable of `for attempt in range(max_retries)`
    requests_sent,      \* requests.get calls of this download_pdf call
    sleeps,             \* time.sleep(2) calls of this download_pdf call
    retry_file,         \* filename: "absent" | "stale" | "partial" | "small" | "pdf"
    retry_result,       \* the value returned, None before
    retry_pc,           \* "called" | "loop" | "returned"
    \* ---- download_all_papers of iclr_oral.py and neurips_oral.py (SpecBatch)
    site,               \* the file whose download_all_papers this is: "iclr" | "neurips"
    disk,               \* size of the file at each paper's pdf_filename, Absent if none
    future_result,      \* what each task returned: "pending", a status, or "raised"
    requests,           \* GETs each task sent in this run
    collected,          \* the futures the as_completed loop has handled
    batch_results,      \* results: the papers of the lists success, exists, failed
    batch_pc,           \* "collecting" | "returned" | "raised"
    run_no,             \* 1, or 2 when the program was run again on the same save_dir
    first_status,       \* what each task returned in the first run
    \* ---- the scroll loop of fetch_paper_list_selenium, cvpr.py (SpecScroll)
    last_height,        \* last_height
    scroll_attempts,    \* scroll_attempts
    scrolls,            \* iterations of the while loop so far, counted up to MaxScrolls
    scroll_pc           \* "loop" | "parsed" | "failed"

orchVars  == <<future_to_paper, keys, observe, file, pc, paper, result, gets, results, main_pc,
               first_run, pdf_response>>
matchVars == <<entries, entry_idx, best_match, best_score, match_pc>>
rateVars  == <<now, arxiv_last_request_time, rl_pc, current_time, wake_time,
               queries_left, calls, writes, get_log>>
searchVars == <<title, clean_title, search_strategies, strategy_idx, response,
                sent, parsed, search_pc, search_result>>
simVars   == <<text1, text2, sim_pc, score>>
runVars   == <<program, event_idx, listing, all_papers, run_results, report, run_pc>>
urlVars   == <<url_in, url_out, url_pc>>
retryVars == <<downloader, attempt, requests_sent, sleeps, retry_file, retry_result, retry_pc>>
batchVars == <<site, disk, future_result, requests, collected, batch_results, batch_pc,
               run_no, first_status>>
scrollVars == <<last_height, scroll_attempts, scrolls, scroll_pc>>
lateVars  == <<batchVars, scrollVars>>
moreVars  == <<runVars, urlVars, retryVars, lateVars>>
vars == <<orchVars, matchVars, rateVars, searchVars, simVars, moreVars>>

None == "None"

(***************************************************************************)
(* Bounds of the model.                                                    *)
(***************************************************************************)
NumPapers == 2
Papers == 1..NumPapers
MaxEntries == 3
MaxCalls == 2
ClockSpan == 7
MaxWords == 6
MaxTextLen == 3
NumEventTypes == 2
MaxListed == 2
MaxUrlLen == 4
MaxHeight == 3
MaxScrolls == 12

(***************************************************************************)
(* Program constants.                                                      *)
(***************************************************************************)
max_workers == 2
MinPdfSize == 1024
arxiv_request_interval == 5
max_retries == 3
max_attempts == 10
StableScrolls == 3
JitterMin == 1
JitterMax == 3
MatchThreshold == 40
MaxImportantWords == 4

\* The keys of a paper record: all that get_paper_list sets, or all but the
\* one named (a record the caller built otherwise).
RecordKeys == {"all", "no_title", "no_paper_page_url", "no_authors"}

\* The outcome fields of a paper record: none is set on a record as scraped.
\* A scraped field holds "scraped" as long as it has the value
\* get_paper_list gave it (keys tells which of them the record has).
Annotated(status, method, url, path) ==
    [download_status |-> status, download_method |-> method,
     pdf_url |-> url, local_pdf_path |-> path,
     id |-> "scraped", title |-> "scraped", authors |-> "scraped",
     paper_page_url |-> "scraped"]

\* Variant: the cleaned title is stored back into the record.
OutcomeRetitled(record, status, method, url, path) ==
    [record EXCEPT !.download_status = status, !.download_method = method,
                   !.pdf_url = url, !.local_pdf_path = path, !.title = "cleaned"]

\* The assignments of an outcome to the keys of a record
Outcome(record, status, method, url, path) ==
    [record EXCEPT !.download_status = status, !.download_method = method,
                   !.pdf_url = url, !.local_pdf_path = path]

Scraped == Annotated(None, None, None, FALSE)

\* pdf_response before download_pdf was called
NoResponse ==
    [raises |-> FALSE, status |-> 0, html |-> FALSE, magic |-> FALSE,
     captcha |-> FALSE, size |-> 0, write_fails |-> FALSE, written |-> 0]

\* ------------------------------------------------------------------------
\* The subsystems a specification does not run stay in these states.
\* ------------------------------------------------------------------------
OrchIdle ==
    /\ future_to_paper = {}
    /\ keys = [p \in Papers |-> "all"]
    /\ observe = FALSE
    /\ file = [p \in Papers |-> [exists |-> FALSE, size |-> 0]]
    /\ pc = [p \in Papers |-> "queued"]
    /\ paper = [p \in Papers |-> Scraped]
    /\ result = [p \in Papers |-> Scraped]
    /\ gets = [p \in Papers |-> [page |-> 0, search |-> 0, pdf |-> 0, waits |-> 0]]
    /\ results = [success |-> <<>>, exists |-> <<>>, failed |-> <<>>]
    /\ main_pc = "collecting"
    /\ first_run = [p \in Papers |-> None]
    /\ pdf_response = NoResponse

\* A fresh save_dir and the papers handed to download_all_papers
OrchInit(papers, obs) ==
    /\ future_to_paper = papers
    /\ keys \in [Papers -> RecordKeys]
    /\ \A p \in Papers \ papers : keys[p] = "all"
    /\ observe = obs
    /\ file = [p \in Papers |-> [exists |-> FALSE, size |-> 0]]
    /\ pc = [p \in Papers |-> "queued"]
    /\ paper = [p \in Papers |-> Scraped]
    /\ result = [p \in Papers |-> Scraped]
    /\ gets = [p \in Papers |-> [page |-> 0, search |-> 0, pdf |-> 0, waits |-> 0]]
    /\ results = [success |-> <<>>, exists |-> <<>>, failed |-> <<>>]
    /\ main_pc = "collecting"
    /\ first_run = [p \in Papers |-> None]
    /\ pdf_response = NoResponse

MatchIdle ==
    /\ entries = <<>>
    /\ entry_idx = 1
    /\ best_match = 0
    /\ best_score = 0
    /\ match_pc = "returned"

RateIdle ==
    /\ now = 0
    /\ arxiv_last_request_time = 0
    /\ rl_pc = <<>>
    /\ current_time = <<>>
    /\ wake_time = <<>>
    /\ queries_left = <<>>
    /\ calls = 0
    /\ writes = <<>>
    /\ get_log = [prev |-> 0, last |-> 0]

SearchIdle ==
    /\ title = None
    /\ clean_title = None
    /\ search_strategies = <<>>
    /\ strategy_idx = 1
    /\ response = None
    /\ sent = 0
    /\ parsed = 0
    /\ search_pc = "returned"
    /\ search_result = None

SimIdle ==
    /\ text1 = <<>>
    /\ text2 = <<>>
    /\ sim_pc = "done"
    /\ score = None

RunIdle ==
    /\ program = None
    /\ event_idx = 1
    /\ listing = None
    /\ all_papers = 0
    /\ run_results = [success |-> <<>>, exists |-> 0, failed |-> 0]
    /\ report = None
    /\ run_pc = "done"

\* An Optional[str]: None, or a string as the sequence of its pieces
NoneValue == [is_none |-> TRUE, value |-> <<>>]

Str(s) == [is_none |-> FALSE, value |-> s]

UrlIdle ==
    /\ url_in = NoneValue
    /\ url_out = NoneValue
    /\ url_pc = "returned"

RetryIdle ==
    /\ downloader = None
    /\ attempt = 0
    /\ requests_sent = 0
    /\ sleeps = 0
    /\ retry_file = "absent"
    /\ retry_result = None
    /\ retry_pc = "returned"

Absent == 0 - 1

BatchIdle ==
    /\ site = None
    /\ disk = [p \in Papers |-> Absent]
    /\ future_result = [p \in Papers |-> "pending"]
    /\ requests = [p \in Papers |-> 0]
    /\ collected = {}
    /\ batch_results = [success |-> {}, exists |-> {}, failed |-> {}]
    /\ batch_pc = "returned"
    /\ run_no = 2
    /\ first_status = [p \in Papers |-> None]

ScrollIdle ==
    /\ last_height = 0
    /\ scroll_attempts = 0
    /\ scrolls = 0
    /\ scroll_pc = "parsed"

LateIdle == BatchIdle /\ ScrollIdle

MoreIdle == RunIdle /\ UrlIdle /\ RetryIdle /\ LateIdle

\* ========================================================================
\* download_single_paper and download_all_papers (src/base.py)
\* ========================================================================

\* What the paper page answers to get_openreview_url: the request fails
\* (exception, raise_for_status), or the page holds no OpenReview link, a link
\* without 'forum?id=', or a forum link.
PageResponses ==
    { [ok |-> o, link |-> l] :
        o \in BOOLEAN,
        l \in {None, "openreview.net/group?id=X", "openreview.net/forum?id=X&noteId=Y"} }

get_openreview_url(resp) ==
    IF ~resp.ok THEN None ELSE resp.link

get_pdf_url_from_openreview(openreview_url) ==
    IF openreview_url = None THEN None
    ELSE IF openreview_url = "openreview.net/forum?id=X&noteId=Y"
         THEN "https://openreview.net/pdf?id=X"
         ELSE None

\* What a PDF URL answers to download_pdf. raises: session.get or open() raised
\* before a byte was written; size: the length of the body; write_fails: the
\* streamed write raised after `written` bytes reached the file; html: the
\* content type holds text/html; magic: the first 100 bytes of the body hold
\* %PDF; captcha: they hold 'captcha' or 'robot'. A field the code never reads
\* for a response (the body of a 404) has one value only.
BodySizes == {0, 512, 2048}
PdfResponse(raises, status, html, magic, captcha, size, write_fails, written) ==
    [raises |-> raises, status |-> status, html |-> html, magic |-> magic,
     captcha |-> captcha, size |-> size, write_fails |-> write_fails, written |-> written]
PdfResponses ==
    {PdfResponse(TRUE, 0, FALSE, FALSE, FALSE, 0, FALSE, 0),
     PdfResponse(FALSE, 404, FALSE, FALSE, FALSE, 0, FALSE, 0)}
    \cup { PdfResponse(FALSE, 200, TRUE, m, FALSE, 2048, FALSE, 2048) : m \in BOOLEAN }
    \cup { PdfResponse(FALSE, 200, FALSE, FALSE, c, 2048, FALSE, 2048) : c \in BOOLEAN }
    \cup { PdfResponse(FALSE, 200, FALSE, TRUE, FALSE, sz, FALSE, sz) : sz \in BodySizes \ {0} }
    \cup UNION { { PdfResponse(FALSE, 200, FALSE, TRUE, FALSE, sz, TRUE, w) :
                     w \in { x \in BodySizes : x < sz } } : sz \in BodySizes \ {0} }

NoFile == [exists |-> FALSE, size |-> 0]

TooSmall(file_size) == file_size < MinPdfSize

\* Variant: the content type is not looked at.
NeverHtml(resp) == FALSE

\* 'text/html' in content_type
IsHtml(resp) == resp.html

\* Variant: the body is not looked at.
SignatureNotChecked(resp) == TRUE

\* b'%PDF' in first_chunk
HasPdfSignature(resp) == resp.magic

\* download_pdf(pdf_url, filename): [ok: the value returned, file: filename afterwards]
download_pdf(resp, f) ==
    IF resp.raises THEN [ok |-> FALSE, file |-> f]
    ELSE IF resp.status # 200 THEN [ok |-> FALSE, file |-> f]
    ELSE IF IsHtml(resp) THEN [ok |-> FALSE, file |-> f]
    ELSE IF ~HasPdfSignature(resp) THEN [ok |-> FALSE, file |-> f]
    ELSE IF resp.write_fails
         THEN [ok |-> FALSE, file |-> [exists |-> TRUE, size |-> resp.written]]
    ELSE IF TooSmall(resp.size) THEN [ok |-> FALSE, file |-> NoFile]
    ELSE [ok |-> TRUE, file |-> [exists |-> TRUE, size |-> resp.size]]

\* The cleaned title search_arxiv works on: its number of tokens and how many
\* of them extract_important_words keeps.
CleanTitles ==
    { [tokens |-> n, important |-> k] : n \in {0, 3, 5, 6}, k \in {0, 2} }

\* Variant: a title of more than 5 tokens always gets the keyword query.
NumStrategiesByLengthOnly(cleaned) ==
    IF cleaned.tokens = 0 THEN 0
    ELSE IF cleaned.tokens > 5 THEN 3
    ELSE 2

\* Variant: no early return for an empty clean_title.
NumStrategiesOfAnyTitle(cleaned) ==
    IF cleaned.tokens > 5 /\ cleaned.important > 0 THEN 3 ELSE 2

\* len(search_strategies)
NumStrategies(cleaned) ==
    IF cleaned.tokens = 0 THEN 0
    ELSE IF cleaned.tokens > 5 /\ cleaned.important > 0 THEN 3
    ELSE 2

\* What one query gives: "match" when the response holds an acceptable entry
\* with a PDF link, "nothing" otherwise (blocked, non-200, exception, no match).
QueryAnswers == {"match", "nothing"}

RECURSIVE QueryLoop(_, _, _)
QueryLoop(i, n, answers) ==
    IF i > n THEN [url |-> None, gets |-> n]
    ELSE IF answers[i] = "match" THEN [url |-> "arxiv.org/pdf", gets |-> i]
    ELSE QueryLoop(i + 1, n, answers)

\* search_arxiv(title, authors): the URL returned and the GETs sent
search_arxiv(cleaned, answers) ==
    QueryLoop(1, NumStrategies(cleaned), answers)

Running == { p \in Papers : pc[p] \in {"lookup", "dl_direct", "search", "dl_search"} }

\* gets after the task of paper p sent these requests and did these waits
Sent(p, page, search, pdf, waits) ==
    IF observe
    THEN [gets EXCEPT ![p] = [page |-> @.page + page, search |-> @.search + search,
                              pdf |-> @.pdf + pdf, waits |-> @.waits + waits]]
    ELSE gets

\* Variant: Method 2 is skipped, the paper ends without a search.
GiveUpAfterDirect == "done"

\* Where download_single_paper goes when Method 1 gave no verified PDF
AfterDirectFailure == "search"

\* Variant: a rejected search candidate sends the paper back to the search.
SearchAgainAfterRejected == "search"

\* Variant: a rejected search candidate is downloaded again.
DownloadAgainAfterRejected == "dl_search"

\* Where download_single_paper goes when download_pdf rejected the search URL
AfterSearchRejected == "done"

\* Variant: the existence check of iclr_oral.py, which wants more than 10000 bytes.
AlreadyExistsAndLarge(f) == f.exists /\ f.size > 10000

\* os.path.exists(pdf_filename), the test of the early return
AlreadyExists(f) == f.exists

\* A worker thread of the pool takes the next queued task (in submission
\* order) and runs download_single_paper up to the existence check.
\* Variant: the search is tried before the OpenReview link.
SearchFirst == "search"

\* Method 1 of download_single_paper is the OpenReview link of the page.
FirstMethod == "lookup"

StartTask(p) ==
    /\ main_pc \in {"collecting", "shutting_down"}
    /\ p \in future_to_paper
    /\ pc[p] = "queued"
    /\ \A q \in Papers : q < p => pc[q] # "queued"
    /\ Cardinality(Running) < max_workers
    /\ \/ \* paper['title'] raises KeyError
          /\ keys[p] = "no_title"
          /\ pc' = [pc EXCEPT ![p] = "raised"]
          /\ UNCHANGED <<paper, result>>
       \/ /\ keys[p] # "no_title"
          /\ AlreadyExists(file[p])
          /\ result' = [result EXCEPT ![p] =
                            Outcome(paper[p], "exists", "existing", paper[p].pdf_url, TRUE)]
          /\ pc' = [pc EXCEPT ![p] = "done"]
          /\ UNCHANGED paper
       \/ \* paper['paper_page_url'] raises KeyError
          /\ keys[p] = "no_paper_page_url"
          /\ ~AlreadyExists(file[p])
          /\ pc' = [pc EXCEPT ![p] = "raised"]
          /\ UNCHANGED <<paper, result>>
       \/ /\ keys[p] \notin {"no_title", "no_paper_page_url"}
          /\ ~AlreadyExists(file[p])
          /\ pc' = [pc EXCEPT ![p] = FirstMethod]
          /\ UNCHANGED <<paper, result>>
    /\ UNCHANGED <<future_to_paper, keys, observe, pdf_response, file, gets, results, main_pc, first_run, matchVars, rateVars, searchVars, simVars, moreVars>>

\* Method 1, first half: get_openreview_url and get_pdf_url_from_openreview
DirectLookup(p) ==
    /\ pc[p] = "lookup"
    /\ gets' = Sent(p, 1, 0, 0, 0)
    /\ \E resp \in PageResponses :
         LET pdf_url == get_pdf_url_from_openreview(get_openreview_url(resp)) IN
         pc' = [pc EXCEPT ![p] = IF pdf_url # None THEN "dl_direct" ELSE AfterDirectFailure]
    /\ UNCHANGED <<future_to_paper, keys, observe, pdf_response, file, paper, result, results, main_pc, first_run, matchVars, rateVars, searchVars, simVars, moreVars>>

\* Variant: every success is recorded as found by the search.
SucceedAsArxiv(p, method, url) ==
    /\ paper' = [paper EXCEPT ![p] = Annotated("success", "arxiv", url, TRUE)]
    /\ result' = [result EXCEPT ![p] = Annotated("success", "arxiv", url, TRUE)]
    /\ pc' = [pc EXCEPT ![p] = "done"]

Succeed(p, method, url) ==
    /\ paper' = [paper EXCEPT ![p] = Outcome(paper[p], "success", method, url, TRUE)]
    /\ result' = [result EXCEPT ![p] = Outcome(paper[p], "success", method, url, TRUE)]
    /\ pc' = [pc EXCEPT ![p] = "done"]

\* The failure branch assigns download_status and download_method only.
Failed(record) ==
    [record EXCEPT !.download_status = "failed", !.download_method = "none"]

Fail(p) ==
    /\ paper' = [paper EXCEPT ![p] = Failed(paper[p])]
    /\ result' = [result EXCEPT ![p] = Failed(paper[p])]
    /\ pc' = [pc EXCEPT ![p] = "done"]

\* Method 1, second half: download_pdf(pdf_url, pdf_filename)
DirectDownload(p) ==
    /\ pc[p] = "dl_direct"
    /\ gets' = Sent(p, 0, 0, 1, 0)
    /\ \E resp \in PdfResponses :
         LET d == download_pdf(resp, file[p]) IN
         /\ pdf_response' = IF observe THEN resp ELSE pdf_response
         /\ file' = [file EXCEPT ![p] = d.file]
         /\ IF d.ok
            THEN Succeed(p, "openreview", "https://openreview.net/pdf?id=X")
            ELSE /\ pc' = [pc EXCEPT ![p] = AfterDirectFailure]
                 /\ UNCHANGED <<paper, result>>
    /\ UNCHANGED <<future_to_paper, keys, observe, results, main_pc, first_run, matchVars, rateVars, searchVars, simVars, moreVars>>

\* Method 2, first half: find_pdf_through_search (search_arxiv as a whole)
SearchPaper(p) ==
    /\ pc[p] = "search"
    /\ \/ \* paper['authors'] raises KeyError before search_arxiv is called
          /\ keys[p] = "no_authors"
          /\ pc' = [pc EXCEPT ![p] = "raised"]
          /\ UNCHANGED <<gets, paper, result>>
       \/ \E t \in CleanTitles, answers \in [1..3 -> QueryAnswers] :
            /\ keys[p] # "no_authors"
            /\ LET s == search_arxiv(t, answers) IN
                 /\ gets' = Sent(p, 0, s.gets, 0, 1)
                 /\ IF s.url # None
                    THEN /\ pc' = [pc EXCEPT ![p] = "dl_search"]
                         /\ UNCHANGED <<paper, result>>
                    ELSE Fail(p)
    /\ UNCHANGED <<future_to_paper, keys, observe, pdf_response, file, results, main_pc, first_run, matchVars, rateVars, searchVars, simVars, moreVars>>

\* Method 2, second half: download_pdf(search_pdf_url, pdf_filename)
SearchDownload(p) ==
    /\ pc[p] = "dl_search"
    /\ gets' = Sent(p, 0, 0, 1, 0)
    /\ \E resp \in PdfResponses :
         LET d == download_pdf(resp, file[p]) IN
         /\ pdf_response' = IF observe THEN resp ELSE pdf_response
         /\ file' = [file EXCEPT ![p] = d.file]
         /\ IF d.ok
            THEN Succeed(p, "arxiv", "arxiv.org/pdf")
            ELSE IF AfterSearchRejected = "done"
                 THEN Fail(p)
                 ELSE /\ pc' = [pc EXCEPT ![p] = AfterSearchRejected]
                      /\ UNCHANGED <<paper, result>>
    /\ UNCHANGED <<future_to_paper, keys, observe, results, main_pc, first_run, matchVars, rateVars, searchVars, simVars, moreVars>>

\* The list of results the as_completed loop appends the paper to
ResultList(p) ==
    IF pc[p] = "raised" THEN "failed"
    ELSE IF result[p].download_status = "success" THEN "success"
    ELSE IF result[p].download_status = "exists" THEN "exists"
    ELSE "failed"

\* Variant: the except branch logs the error and appends nothing.
AppendedUnlessRaised(p) ==
    IF pc[p] = "raised" THEN results
    ELSE [results EXCEPT ![ResultList(p)] = Append(@, p)]

\* results after the try/except of the loop body handled the paper's future
Appended(p) ==
    [results EXCEPT ![ResultList(p)] = Append(@, p)]

\* One iteration of `for future in as_completed(future_to_paper)`
Collect(p) ==
    /\ main_pc = "collecting"
    /\ pc[p] \in {"done", "raised"}
    /\ results' = Appended(p)
    /\ pc' = [pc EXCEPT ![p] = "collected"]
    /\ UNCHANGED <<future_to_paper, keys, observe, pdf_response, file, paper, result, gets, main_pc, first_run, matchVars, rateVars, searchVars, simVars, moreVars>>

\* download_all_papers returns results
ReturnResults ==
    /\ main_pc = "collecting"
    /\ \A p \in future_to_paper : pc[p] = "collected"
    /\ main_pc' = "returned"
    /\ UNCHANGED <<future_to_paper, keys, observe, pdf_response, file, pc, paper, result, gets, results, first_run, matchVars, rateVars, searchVars, simVars, moreVars>>

\* A KeyboardInterrupt reaches the main thread inside the as_completed loop:
\* it is no Exception, so it leaves the loop and the `with` block, whose
\* __exit__ calls executor.shutdown(wait=True) without cancelling the futures.
Interrupt ==
    /\ main_pc = "collecting"
    /\ main_pc' = "shutting_down"
    /\ UNCHANGED <<future_to_paper, keys, observe, pdf_response, file, pc, paper, result, gets, results, first_run, matchVars, rateVars, searchVars, simVars, moreVars>>

\* shutdown(wait=True) has joined the worker threads, which ended when the
\* work queue was empty: the KeyboardInterrupt goes on to main().
Propagate ==
    /\ main_pc = "shutting_down"
    /\ \A p \in future_to_paper : pc[p] \in {"done", "raised", "collected"}
    /\ main_pc' = "interrupted"
    /\ UNCHANGED <<future_to_paper, keys, observe, pdf_response, file, pc, paper, result, gets, results, first_run, matchVars, rateVars, searchVars, simVars, moreVars>>

StatusOf(p) ==
    IF result[p] = Scraped THEN "failed" ELSE result[p].download_status

\* The program is run again on the same save_dir: the files stay, the paper
\* records are scraped anew.
RunAgain ==
    /\ main_pc = "returned"
    /\ first_run = [p \in Papers |-> None]
    /\ first_run' = [p \in Papers |-> IF observe /\ p \in future_to_paper
                                        THEN StatusOf(p) ELSE "unknown"]
    /\ pc' = [p \in Papers |-> "queued"]
    /\ paper' = [p \in Papers |-> Scraped]
    /\ result' = [p \in Papers |-> Scraped]
    /\ gets' = [p \in Papers |-> [page |-> 0, search |-> 0, pdf |-> 0, waits |-> 0]]
    /\ results' = [success |-> <<>>, exists |-> <<>>, failed |-> <<>>]
    /\ main_pc' = "collecting"
    /\ pdf_response' = NoResponse
    /\ UNCHANGED <<future_to_paper, keys, observe, file, matchVars, rateVars, searchVars, simVars, moreVars>>

Init == OrchInit(Papers, FALSE) /\ MatchIdle /\ RateIdle /\ SearchIdle /\ SimIdle /\ MoreIdle

InitPaper == OrchInit({1}, TRUE) /\ MatchIdle /\ RateIdle /\ SearchIdle /\ SimIdle /\ MoreIdle

Next ==
    \/ \E p \in Papers : StartTask(p)
    \/ \E p \in Papers : DirectLookup(p)
    \/ \E p \in Papers : DirectDownload(p)
    \/ \E p \in Papers : SearchPaper(p)
    \/ \E p \in Papers : SearchDownload(p)
    \/ \E p \in Papers : Collect(p)
    \/ ReturnResults
    \/ Interrupt
    \/ Propagate
    \/ RunAgain

Spec == Init /\ [][Next]_vars

SpecPaper == InitPaper /\ [][Next]_vars

\* ========================================================================
\* search_arxiv: the loop over the entries of one response (src/base.py)
\* ========================================================================

\* An entry of the response: title_score and author_score as title_similarity
\* and author_similarity give them, in tenths, and whether the entry has a
\* link titled pdf with an href. The href of entry i is written i.
EntryKinds ==
    [title_score : {4, 6, 10}, author_score : {0, 4}, has_pdf : BOOLEAN]

RECURSIVE SeqsUpTo(_, _)
SeqsUpTo(S, n) ==
    IF n = 0 THEN {<<>>}
    ELSE LET shorter == SeqsUpTo(S, n - 1) IN
         shorter \cup { Append(q, x) : q \in { r \in shorter : Len(r) = n - 1 }, x \in S }

\* total_score = title_score * 0.7 + author_score * 0.3, in 1/100
total_score(e) == 7 * e.title_score + 3 * e.author_score

\* Variant: the threshold itself is accepted.
BetterOrAtThreshold(total, best) == total > best /\ total >= MatchThreshold

\* total_score > best_score and total_score > 0.4
Better(total, best) == total > best /\ total > MatchThreshold

MatchInit ==
    /\ entries \in SeqsUpTo(EntryKinds, MaxEntries)
    /\ entry_idx = 1
    /\ best_match = 0
    /\ best_score = 0
    /\ match_pc = "scan"

\* One iteration of `for entry in entries`
ScanEntry ==
    /\ match_pc = "scan"
    /\ entry_idx <= Len(entries)
    /\ LET e == entries[entry_idx] IN
       IF Better(total_score(e), best_score)
       THEN /\ best_score' = total_score(e)
            /\ best_match' = IF e.has_pdf THEN entry_idx ELSE best_match
       ELSE UNCHANGED <<best_score, best_match>>
    /\ entry_idx' = entry_idx + 1
    /\ UNCHANGED <<entries, match_pc, orchVars, rateVars, searchVars, simVars, moreVars>>

\* The loop is over: `if best_match: return best_match`, else the next query
ReturnMatch ==
    /\ match_pc = "scan"
    /\ entry_idx > Len(entries)
    /\ match_pc' = "returned"
    /\ UNCHANGED <<entries, entry_idx, best_match, best_score, orchVars, rateVars, searchVars, simVars, moreVars>>

NextMatch == ScanEntry \/ ReturnMatch

InitMatch == MatchInit /\ OrchIdle /\ RateIdle /\ SearchIdle /\ SimIdle /\ MoreIdle

SpecMatch == InitMatch /\ [][NextMatch]_vars

\* ========================================================================
\* wait_for_arxiv_rate_limit and the query loop of search_arxiv (src/base.py)
\* ========================================================================

Workers == 1..max_workers

\* The threads of the pool that run: download_all_papers(papers, max_workers=n)
Threads == { w \in Workers : rl_pc[w] # "off" }

\* time.time() when the downloader is built: seconds since 1970, far more
\* than the interval after the initial arxiv_last_request_time = 0.
StartTime == 2 * arxiv_request_interval
MaxTime == StartTime + ClockSpan

\* random.uniform(1.0, 3.0), in whole seconds
Jitters == JitterMin..JitterMax

\* The last two elements of a log
LastTwo(log) == IF Len(log) <= 2 THEN log ELSE Tail(log)

\* Variant: the sleep lasts for the random delay only.
SleepForJitterOnly(time_since_last_request, jitter) == jitter

\* sleep_time + random.uniform(1.0, 3.0)
SleepLength(time_since_last_request, jitter) ==
    (arxiv_request_interval - time_since_last_request) + jitter

RateInit ==
    /\ now = StartTime
    /\ arxiv_last_request_time = 0
    /\ \E n \in Workers : rl_pc = [w \in Workers |-> IF w <= n THEN "idle" ELSE "off"]
    /\ current_time = [w \in Workers |-> 0]
    /\ wake_time = [w \in Workers |-> 0]
    /\ queries_left = [w \in Workers |-> 0]
    /\ calls = 0
    /\ writes = <<>>
    /\ get_log = [prev |-> 0, last |-> 0]

\* The clock advances; a statement of a thread takes any time, zero included.
Tick ==
    /\ now < MaxTime
    /\ now' = now + 1
    /\ UNCHANGED <<arxiv_last_request_time, rl_pc, current_time, wake_time,
                   queries_left, calls, writes, get_log, orchVars, matchVars, searchVars, simVars, moreVars>>

\* A thread reaches find_pdf_through_search for its next paper: search_arxiv
\* is called.
CallSearchArxiv(w) ==
    /\ rl_pc[w] = "idle"
    /\ calls < MaxCalls
    /\ calls' = calls + 1
    /\ rl_pc' = [rl_pc EXCEPT ![w] = "read_clock"]
    /\ UNCHANGED <<now, arxiv_last_request_time, current_time, wake_time,
                   queries_left, writes, get_log, orchVars, matchVars, searchVars, simVars, moreVars>>

\* current_time = time.time()
ReadClock(w) ==
    /\ rl_pc[w] = "read_clock"
    /\ current_time' = [current_time EXCEPT ![w] = now]
    /\ rl_pc' = [rl_pc EXCEPT ![w] = "check"]
    /\ UNCHANGED <<now, arxiv_last_request_time, wake_time, queries_left, calls,
                   writes, get_log, orchVars, matchVars, searchVars, simVars, moreVars>>

\* time_since_last_request is computed and compared; time.sleep is entered
\* when it is below the interval.
CheckInterval(w) ==
    /\ rl_pc[w] = "check"
    /\ LET time_since_last_request == current_time[w] - arxiv_last_request_time IN
       IF time_since_last_request < arxiv_request_interval
       THEN \E jitter \in Jitters :
              wake_time' = [wake_time EXCEPT
                              ![w] = now + SleepLength(time_since_last_request, jitter)]
       ELSE wake_time' = [wake_time EXCEPT ![w] = now]
    /\ current_time' = [current_time EXCEPT ![w] = 0]
    /\ rl_pc' = [rl_pc EXCEPT ![w] = "stamp"]
    /\ UNCHANGED <<now, arxiv_last_request_time, queries_left, calls,
                   writes, get_log, orchVars, matchVars, searchVars, simVars, moreVars>>

\* Variant: the timestamp is written without waiting for the sleep.
SleepSkipped(w) == TRUE

\* time.sleep(sleep_time + jitter) has returned, if it was called
SleepOver(w) == now >= wake_time[w]

\* time.sleep has returned (if called): self.arxiv_last_request_time = time.time()
WriteLastRequestTime(w) ==
    /\ rl_pc[w] = "stamp"
    /\ SleepOver(w)
    /\ arxiv_last_request_time' = now
    /\ writes' = LastTwo(Append(writes, [thread |-> w, time |-> now]))
    /\ wake_time' = [wake_time EXCEPT ![w] = 0]
    /\ rl_pc' = [rl_pc EXCEPT ![w] = "clean"]
    /\ UNCHANGED <<now, current_time, queries_left, calls, get_log, orchVars, matchVars, searchVars, simVars, moreVars>>

\* The title is cleaned and search_strategies is built; an empty clean_title
\* returns None.
BuildStrategies(w) ==
    /\ rl_pc[w] = "clean"
    /\ \E t \in CleanTitles :
         /\ queries_left' = [queries_left EXCEPT ![w] = NumStrategies(t)]
         /\ rl_pc' = [rl_pc EXCEPT ![w] = IF NumStrategies(t) = 0 THEN "idle" ELSE "query"]
    /\ UNCHANGED <<now, arxiv_last_request_time, current_time, wake_time, calls,
                   writes, get_log, orchVars, matchVars, searchVars, simVars, moreVars>>

\* One iteration of `for search_query in search_strategies`: the GET, and the
\* return when the response gives a match.
SendQuery(w) ==
    /\ rl_pc[w] = "query"
    /\ get_log' = [prev |-> get_log.last, last |-> now]
    /\ \E answer \in QueryAnswers :
         IF answer = "match" \/ queries_left[w] = 1
         THEN /\ queries_left' = [queries_left EXCEPT ![w] = 0]
              /\ rl_pc' = [rl_pc EXCEPT ![w] = "idle"]
         ELSE /\ queries_left' = [queries_left EXCEPT ![w] = @ - 1]
              /\ UNCHANGED rl_pc
    /\ UNCHANGED <<now, arxiv_last_request_time, current_time, wake_time, calls,
                   writes, orchVars, matchVars, searchVars, simVars, moreVars>>

InitRate == RateInit /\ OrchIdle /\ MatchIdle /\ SearchIdle /\ SimIdle /\ MoreIdle

NextRate ==
    \/ Tick
    \/ \E w \in Workers : CallSearchArxiv(w)
    \/ \E w \in Workers : ReadClock(w)
    \/ \E w \in Workers : CheckInterval(w)
    \/ \E w \in Workers : WriteLastRequestTime(w)
    \/ \E w \in Workers : BuildStrategies(w)
    \/ \E w \in Workers : SendQuery(w)

SpecRate == InitRate /\ [][NextRate]_vars

\* ========================================================================
\* search_arxiv: cleaning of the title and the query variants (src/base.py)
\* ========================================================================

\* A title as search_arxiv gets it: whether it holds characters that are not
\* \w or \s, how many of its words are conference names, how many of the
\* other words are stop words or at most 3 characters long (other_words) and
\* how many are neither (long_words).
Titles ==
    [punctuation : BOOLEAN, conference_words : 0..1,
     other_words : 0..MaxWords, long_words : 0..MaxWords]

Min(a, b) == IF a <= b THEN a ELSE b

\* len(extract_important_words(text)): the words that are no stop words and
\* longer than 3 characters, cut to the first MaxImportantWords
extract_important_words(long_words) == Min(long_words, MaxImportantWords)

\* clean_title: punctuation and conference names removed, whitespace
\* collapsed, with what extract_important_words finds in it
Cleaned(t) ==
    [tokens |-> t.other_words + t.long_words,
     important |-> extract_important_words(t.long_words)]

\* search_strategies: the field searched and the number of words of each query
\* Variant: the full-text query is sent before the title query.
StrategiesFullTextFirst(cleaned) ==
    SubSeq(<<[field |-> "all", words |-> cleaned.tokens],
             [field |-> "ti", words |-> cleaned.tokens],
             [field |-> "all", words |-> cleaned.important]>>,
           1, NumStrategies(cleaned))

StrategiesOf(cleaned) ==
    SubSeq(<<[field |-> "ti", words |-> cleaned.tokens],
             [field |-> "all", words |-> cleaned.tokens],
             [field |-> "all", words |-> cleaned.important]>>,
           1, NumStrategies(cleaned))

\* What a query variant gets: session.get raises (timeout, connection error),
\* a status other than 200, a 200 with an HTML content type, a 200 whose
\* entries raise while they are scored, a 200 without best_match, a 200 with
\* best_match.
Responses == {"raises", "status", "html", "scoring_raises", "no_match", "match"}

\* The responses that reach BeautifulSoup(response.content, 'xml')
IsParsed(resp) == resp \in {"scoring_raises", "no_match", "match"}

\* Variant: a blocked response ends the call.
ReturnsOnMatchOrBlocked(resp) == resp \in {"match", "html"}

\* The responses on which the loop body returns
Returns(resp) == resp = "match"

SearchInit ==
    /\ title \in Titles
    /\ clean_title = None
    /\ search_strategies = <<>>
    /\ strategy_idx = 1
    /\ response = None
    /\ sent = 0
    /\ parsed = 0
    /\ search_pc = "clean"
    /\ search_result = None

\* The re.sub calls and strip() that give clean_title
CleanTitle ==
    /\ search_pc = "clean"
    /\ clean_title' = Cleaned(title)
    /\ search_pc' = "build"
    /\ UNCHANGED <<title, search_strategies, strategy_idx, response, sent, parsed,
                   search_result, orchVars, matchVars, rateVars, simVars, moreVars>>

\* `if not clean_title: return None`, else search_strategies is built
MakeStrategies ==
    /\ search_pc = "build"
    /\ IF NumStrategies(clean_title) = 0
       THEN /\ search_pc' = "returned"
            /\ UNCHANGED search_strategies
       ELSE /\ search_strategies' = StrategiesOf(clean_title)
            /\ search_pc' = "query"
    /\ UNCHANGED <<title, clean_title, strategy_idx, response, sent, parsed,
                   search_result, orchVars, matchVars, rateVars, simVars, moreVars>>

\* One iteration of `for search_query in search_strategies`
Query ==
    /\ search_pc = "query"
    /\ strategy_idx <= Len(search_strategies)
    /\ sent' = sent + 1
    /\ \E resp \in Responses :
         /\ response' = resp
         /\ parsed' = IF IsParsed(resp) THEN parsed + 1 ELSE parsed
         /\ IF Returns(resp)
            THEN /\ search_result' = IF resp = "match" THEN "arxiv.org/pdf" ELSE None
                 /\ search_pc' = "returned"
                 /\ UNCHANGED strategy_idx
            ELSE /\ strategy_idx' = strategy_idx + 1
                 /\ UNCHANGED <<search_result, search_pc>>
    /\ UNCHANGED <<title, clean_title, search_strategies,
                   orchVars, matchVars, rateVars, simVars, moreVars>>

\* The loop is over: return None
ReturnNone ==
    /\ search_pc = "query"
    /\ strategy_idx > Len(search_strategies)
    /\ search_pc' = "returned"
    /\ UNCHANGED <<title, clean_title, search_strategies, strategy_idx, response,
                   sent, parsed, search_result, orchVars, matchVars, rateVars, simVars, moreVars>>

InitSearch == SearchInit /\ OrchIdle /\ MatchIdle /\ RateIdle /\ SimIdle /\ MoreIdle

NextSearch == CleanTitle \/ MakeStrategies \/ Query \/ ReturnNone

SpecSearch == InitSearch /\ [][NextSearch]_vars

\* ========================================================================
\* title_similarity, sequence_similarity, author_similarity (src/base.py)
\* ========================================================================

\* A text is the sequence of its whitespace-separated pieces. In a title:
\* a lower-case word, the same word capitalised, another word, a piece of
\* punctuation. In an author string: two capitalised names and a lower-case
\* word. The empty sequence is the empty string (or None).
TitleTokens == {"a", "A", "b", "!"}
AuthorTokens == {"Smith", "Jones", "et"}

\* str.lower() on a piece
Lower(tok) ==
    CASE tok = "A" -> "a"
      [] tok = "Smith" -> "smith"
      [] tok = "Jones" -> "jones"
      [] OTHER -> tok

\* re.sub(r'[^\w\s]', ' ', title.lower()).split()
Split(text) ==
    SelectSeq([i \in DOMAIN text |-> Lower(text[i])], LAMBDA tok : tok # "!")

SetOf(seq) == { seq[i] : i \in DOMAIN seq }

Max(a, b) == IF a >= b THEN a ELSE b

\* A returned number as a fraction; a ZeroDivisionError as Raised
Zero == [num |-> 0, den |-> 1]
Raised == [num |-> 0, den |-> 0]
Divide(n, d) == IF d = 0 THEN Raised ELSE [num |-> n, den |-> d]

\* Variant: the number of common words instead of the longest common subsequence.
CommonWords(x, y, m, n) == Cardinality(SetOf(x) \cap SetOf(y))

\* dp[m][n] of lcs_length(x, y)
RECURSIVE lcs_length(_, _, _, _)
lcs_length(x, y, m, n) ==
    IF m = 0 \/ n = 0 THEN 0
    ELSE IF x[m] = y[n] THEN lcs_length(x, y, m - 1, n - 1) + 1
    ELSE Max(lcs_length(x, y, m - 1, n), lcs_length(x, y, m, n - 1))

\* Variant: the ratio is taken over the first sequence.
LenOfFirst(seq1, seq2) == Len(seq1)

\* max(len(seq1), len(seq2))
LongerLen(seq1, seq2) == Max(Len(seq1), Len(seq2))

sequence_similarity(seq1, seq2) ==
    IF seq1 = <<>> \/ seq2 = <<>> THEN Zero
    ELSE Divide(lcs_length(seq1, seq2, Len(seq1), Len(seq2)), LongerLen(seq1, seq2))

\* Variant: the test for empty word sets is left out.
NeverNoWords(words1, words2) == FALSE

\* not words1 or not words2
NoWords(words1, words2) == words1 = {} \/ words2 = {}

\* Variant: both components weigh the same.
EqualWeights(jaccard_sim, seq_sim) ==
    IF jaccard_sim = Raised \/ seq_sim = Raised THEN Raised
    ELSE [num |-> 5 * jaccard_sim.num * seq_sim.den + 5 * seq_sim.num * jaccard_sim.den,
          den |-> 10 * jaccard_sim.den * seq_sim.den]

\* jaccard_sim * 0.6 + seq_sim * 0.4
Combined(jaccard_sim, seq_sim) ==
    IF jaccard_sim = Raised \/ seq_sim = Raised THEN Raised
    ELSE [num |-> 6 * jaccard_sim.num * seq_sim.den + 4 * seq_sim.num * jaccard_sim.den,
          den |-> 10 * jaccard_sim.den * seq_sim.den]

title_similarity(title1, title2) ==
    IF title1 = <<>> \/ title2 = <<>> THEN Zero
    ELSE LET seq1 == Split(title1)
             seq2 == Split(title2)
             words1 == SetOf(seq1)
             words2 == SetOf(seq2)
         IN  IF NoWords(words1, words2) THEN Zero
             ELSE Combined(Divide(Cardinality(words1 \cap words2),
                                  Cardinality(words1 \cup words2)),
                           sequence_similarity(seq1, seq2))

\* extract_last_names: re.findall(r'\b[A-Z][a-z]+\b', authors_str), lower-cased
extract_last_names(authors_str) ==
    { Lower(tok) : tok \in { x \in SetOf(authors_str) : x \in {"Smith", "Jones"} } }

author_similarity(authors1, authors2) ==
    IF authors1 = <<>> \/ authors2 = <<>> THEN Zero
    ELSE LET last_names1 == extract_last_names(authors1)
             last_names2 == extract_last_names(authors2)
         IN  IF last_names1 = {} \/ last_names2 = {} THEN Zero
             ELSE Divide(Cardinality(last_names1 \cap last_names2),
                         Cardinality(last_names1 \cup last_names2))

SimInit ==
    /\ sim_pc \in {"title", "authors"}
    /\ LET texts == SeqsUpTo(IF sim_pc = "title" THEN TitleTokens ELSE AuthorTokens,
                             MaxTextLen)
       IN  text1 \in texts /\ text2 \in texts
    /\ score = None

TitleSimilarity ==
    /\ sim_pc = "title"
    /\ score' = title_similarity(text1, text2)
    /\ sim_pc' = "title_done"
    /\ UNCHANGED <<text1, text2, orchVars, matchVars, rateVars, searchVars, moreVars>>

AuthorSimilarity ==
    /\ sim_pc = "authors"
    /\ score' = author_similarity(text1, text2)
    /\ sim_pc' = "authors_done"
    /\ UNCHANGED <<text1, text2, orchVars, matchVars, rateVars, searchVars, moreVars>>

InitSim == SimInit /\ OrchIdle /\ MatchIdle /\ RateIdle /\ SearchIdle /\ MoreIdle

NextSim == TitleSimilarity \/ AuthorSimilarity

SpecSim == InitSim /\ [][NextSim]_vars

\* ========================================================================
\* run: listing pages, download phase, summary report
\* (src/base.py, src/main.py, src/neurips_oral.py)
\* ========================================================================

Programs == {"base", "main", "neurips"}

\* What a listing page answers: the GET raises, a status other than 200, or
\* a page with `papers` cards.
Listings ==
    {[kind |-> "raises", papers |-> 0], [kind |-> "status", papers |-> 0]}
    \cup { [kind |-> "ok", papers |-> n] : n \in 0..MaxListed }

\* Whether requests.get is inside the try block of get_paper_list
FetchGuarded(prog) == prog \in {"base", "main"}

\* get_paper_list(event_type): [raised, papers: len of the list returned]
get_paper_list(prog, resp) ==
    IF resp.kind = "raises"
    THEN [raised |-> ~FetchGuarded(prog), papers |-> 0]
    ELSE [raised |-> FALSE, papers |-> IF resp.kind = "ok" THEN resp.papers ELSE 0]

Methods == {"openreview", "arxiv"}

\* The results download_all_papers can return for n papers: every paper is
\* in one of the three lists, a paper of success with its download_method.
ResultsOf(n) ==
    UNION { { [success |-> s, exists |-> e, failed |-> n - Len(s) - e] :
                e \in 0..(n - Len(s)) } : s \in SeqsUpTo(Methods, n) }

\* report['download_methods'][m]
MethodCount(success, m) == Cardinality({ i \in DOMAIN success : success[i] = m })

\* Whether generate_summary_report tests total == 0 before dividing
RateGuarded(prog) == prog = "base"

\* success_rate of generate_summary_report, in percent
success_rate(prog, r) ==
    LET total == Len(r.success) + r.exists + r.failed IN
    IF RateGuarded(prog) /\ total = 0 THEN Zero
    ELSE Divide((Len(r.success) + r.exists) * 100, total)

\* The report generate_summary_report builds
ReportOf(prog, r) ==
    [total_papers |-> Len(r.success) + r.exists + r.failed,
     successful_downloads |-> Len(r.success),
     existing_files |-> r.exists,
     failed_downloads |-> r.failed,
     success_rate |-> success_rate(prog, r),
     download_methods |-> [m \in Methods |-> MethodCount(r.success, m)]]

RunInit ==
    /\ program \in Programs
    /\ event_idx = 1
    /\ listing = None
    /\ all_papers = 0
    /\ run_results = [success |-> <<>>, exists |-> 0, failed |-> 0]
    /\ report = None
    /\ run_pc = "listing"

\* One iteration of `for event_type in event_types`
GetPaperList ==
    /\ run_pc = "listing"
    /\ event_idx <= NumEventTypes
    /\ \E resp \in Listings :
         LET got == get_paper_list(program, resp) IN
         /\ listing' = resp.kind
         /\ IF got.raised
            THEN /\ run_pc' = "raised"
                 /\ UNCHANGED <<all_papers, event_idx>>
            ELSE /\ all_papers' = all_papers + got.papers
                 /\ event_idx' = event_idx + 1
                 /\ UNCHANGED run_pc
    /\ UNCHANGED <<program, run_results, report,
                   orchVars, matchVars, rateVars, searchVars, simVars, urlVars, retryVars, lateVars>>

\* The loop is over: download_all_papers(all_papers); neurips_oral.py
\* returns before it when all_papers is empty.
DownloadAllPapers ==
    /\ run_pc = "listing"
    /\ event_idx > NumEventTypes
    /\ IF program = "neurips" /\ all_papers = 0
       THEN /\ run_pc' = "done"
            /\ UNCHANGED run_results
       ELSE /\ run_results' \in ResultsOf(all_papers)
            /\ run_pc' = IF program = "neurips" THEN "done" ELSE "report"
    /\ UNCHANGED <<program, event_idx, listing, all_papers, report,
                   orchVars, matchVars, rateVars, searchVars, simVars, urlVars, retryVars, lateVars>>

\* generate_summary_report(results)
GenerateSummaryReport ==
    /\ run_pc = "report"
    /\ IF success_rate(program, run_results) = Raised
       THEN /\ run_pc' = "raised"
            /\ UNCHANGED report
       ELSE /\ report' = ReportOf(program, run_results)
            /\ run_pc' = "done"
    /\ UNCHANGED <<program, event_idx, listing, all_papers, run_results,
                   orchVars, matchVars, rateVars, searchVars, simVars, urlVars, retryVars, lateVars>>

InitRun == RunInit /\ OrchIdle /\ MatchIdle /\ RateIdle /\ SearchIdle /\ SimIdle
               /\ UrlIdle /\ RetryIdle /\ LateIdle

NextRun == GetPaperList \/ DownloadAllPapers \/ GenerateSummaryReport

SpecRun == InitRun /\ [][NextRun]_vars

\* ========================================================================
\* get_pdf_url_from_openreview on the text of the URL
\* (src/base.py, src/iclr_oral.py)
\* ========================================================================

\* A URL is a sequence of pieces: the marker 'forum?id=', the separator
\* '&', and two texts that hold neither.
ForumId == "forum?id="

Amp == "&"

Pieces == {ForumId, Amp, "a", "b"}

Urls == {NoneValue} \cup { Str(s) : s \in SeqsUpTo(Pieces, MaxUrlLen) }

\* The first index of piece in s, Len(s) + 1 when there is none
RECURSIVE find(_, _, _)
find(s, piece, from) ==
    IF from > Len(s) THEN Len(s) + 1
    ELSE IF s[from] = piece THEN from
    ELSE find(s, piece, from + 1)

\* str.split(sep): the list of the parts between the occurrences of sep
RECURSIVE split(_, _)
split(s, sep) ==
    LET i == find(s, sep, 1) IN
    IF i > Len(s) THEN <<s>>
    ELSE <<SubSeq(s, 1, i - 1)>> \o split(SubSeq(s, i + 1, Len(s)), sep)

\* 'forum?id=' in openreview_url
Contains(s, piece) == find(s, piece, 1) <= Len(s)

\* Variant: the id runs from the first 'forum?id=' to the next '&'.
IdUpToAmp(s) ==
    LET i == find(s, ForumId, 1) IN SubSeq(s, i + 1, find(s, Amp, i + 1) - 1)

\* openreview_url.split('forum?id=')[1].split('&')[0]
paper_id(s) == split(split(s, ForumId)[2], Amp)[1]

PdfPrefix == "https://openreview.net/pdf?id="

\* get_pdf_url_from_openreview(openreview_url), on the text
pdf_url_from_forum_url(u) ==
    IF u.is_none \/ u.value = <<>> THEN NoneValue
    ELSE IF Contains(u.value, ForumId)
         THEN Str(<<PdfPrefix>> \o paper_id(u.value))
         ELSE NoneValue

UrlInit ==
    /\ url_in \in Urls
    /\ url_out = NoneValue
    /\ url_pc = "called"

GetPdfUrl ==
    /\ url_pc = "called"
    /\ url_out' = pdf_url_from_forum_url(url_in)
    /\ url_pc' = "returned"
    /\ UNCHANGED <<url_in, orchVars, matchVars, rateVars, searchVars, simVars,
                   runVars, retryVars, lateVars>>

InitUrl == UrlInit /\ OrchIdle /\ MatchIdle /\ RateIdle /\ SearchIdle /\ SimIdle
               /\ RunIdle /\ RetryIdle /\ LateIdle

NextUrl == GetPdfUrl

SpecUrl == InitUrl /\ [][NextUrl]_vars

\* ========================================================================
\* download_pdf with retries (src/iclr_oral.py, src/neurips_oral.py)
\* ========================================================================

\* The functions with a retry loop: download_pdf of iclr_oral.py and of
\* neurips_oral.py, and get_openreview_url of iclr_oral.py
Downloaders == {"iclr", "neurips", "iclr_page"}

\* What one GET of the loop meets: the GET raises; 200 with a body of at
\* least 1000 bytes (a page with a link); 200 with a smaller body (a page
\* without a link); 200 and the write (the parsing) raises; 404; any other
\* status.
RetryResponses == {"raises", "ok", "small", "write_raises", "not_found", "other_status"}

\* Variant: the loop has no bound.
KeepsTrying(a) == TRUE

\* for attempt in range(max_retries)
InRange(a) == a < max_retries

\* if attempt < max_retries - 1
NotLast(a) == a < max_retries - 1

\* What download_pdf returns
Booleans == {"True", "False"}

RetryInit ==
    /\ downloader \in Downloaders
    /\ attempt = 0
    /\ requests_sent = 0
    /\ sleeps = 0
    /\ retry_file \in {"absent", "stale"}
    /\ retry_result = None
    /\ retry_pc = "called"

\* if not pdf_url: return False
CallDownloadPdf ==
    /\ retry_pc = "called"
    /\ \E has_url \in BOOLEAN :
         IF has_url \/ downloader = "iclr_page"
         THEN retry_pc' = "loop" /\ UNCHANGED retry_result
         ELSE retry_pc' = "returned" /\ retry_result' = "False"
    /\ UNCHANGED <<downloader, attempt, requests_sent, sleeps, retry_file,
                   orchVars, matchVars, rateVars, searchVars, simVars, runVars, urlVars, lateVars>>

Return(value) ==
    /\ retry_result' = value
    /\ retry_pc' = "returned"
    /\ UNCHANGED <<attempt, sleeps>>

\* time.sleep(2); continue
SleepAndContinue ==
    /\ sleeps' = sleeps + 1
    /\ attempt' = attempt + 1
    /\ UNCHANGED <<retry_result, retry_pc>>

\* The body falls off its end: the next iteration, without a sleep
NextIteration ==
    /\ attempt' = attempt + 1
    /\ UNCHANGED <<retry_result, retry_pc, sleeps>>

\* except Exception as e
Except ==
    IF NotLast(attempt) THEN SleepAndContinue
    ELSE IF downloader = "neurips" THEN Return("False")
    ELSE IF downloader = "iclr_page" THEN Return(None)
    ELSE NextIteration

\* One iteration of the loop of get_openreview_url
AttemptPage ==
    /\ retry_pc = "loop"
    /\ downloader = "iclr_page"
    /\ InRange(attempt)
    /\ requests_sent' = requests_sent + 1
    /\ \E resp \in RetryResponses :
         CASE resp \in {"raises", "write_raises"} -> Except
           [] resp \in {"not_found", "other_status"} ->
                IF NotLast(attempt) THEN SleepAndContinue ELSE Return(None)
           [] resp = "ok" -> Return("openreview.net/forum?id=X")
           [] resp = "small" -> Return(None)
    /\ UNCHANGED <<downloader, retry_file,
                   orchVars, matchVars, rateVars, searchVars, simVars, runVars, urlVars, lateVars>>

\* One iteration of the loop of download_pdf: the GET and what follows it
Attempt ==
    /\ retry_pc = "loop"
    /\ downloader \in {"iclr", "neurips"}
    /\ InRange(attempt)
    /\ requests_sent' = requests_sent + 1
    /\ \E resp \in RetryResponses :
         CASE resp = "raises" ->
                Except /\ UNCHANGED retry_file
           [] resp = "write_raises" ->
                Except /\ retry_file' = "partial"
           [] resp = "ok" ->
                Return("True") /\ retry_file' = "pdf"
           [] resp = "small" ->
                IF downloader = "iclr"
                THEN Return("False") /\ retry_file' = "absent"
                ELSE Return("True") /\ retry_file' = "small"
           [] resp = "not_found" ->
                Return("False") /\ UNCHANGED retry_file
           [] resp = "other_status" ->
                /\ IF downloader = "iclr" /\ NotLast(attempt)
                   THEN SleepAndContinue
                   ELSE NextIteration
                /\ UNCHANGED retry_file
    /\ UNCHANGED <<downloader,
                   orchVars, matchVars, rateVars, searchVars, simVars, runVars, urlVars, lateVars>>

\* The loop is exhausted: return False
Exhausted ==
    /\ retry_pc = "loop"
    /\ ~InRange(attempt)
    /\ retry_result' = IF downloader = "iclr_page" THEN None ELSE "False"
    /\ retry_pc' = "returned"
    /\ UNCHANGED <<downloader, attempt, requests_sent, sleeps, retry_file,
                   orchVars, matchVars, rateVars, searchVars, simVars, runVars, urlVars, lateVars>>

InitRetry == RetryInit /\ OrchIdle /\ MatchIdle /\ RateIdle /\ SearchIdle /\ SimIdle
                 /\ RunIdle /\ UrlIdle /\ LateIdle

NextRetry == CallDownloadPdf \/ Attempt \/ AttemptPage \/ Exhausted

SpecRetry == InitRetry /\ [][NextRetry]_vars

\* Every step of download_pdf ends: the GET has a timeout and sleep(2)
\* returns.
SpecRetryFair == SpecRetry /\ WF_vars(NextRetry)

\* ========================================================================
\* download_all_papers and download_single_paper of iclr_oral.py and
\* neurips_oral.py, run twice on the same save_dir
\* ========================================================================

Sites == {"iclr", "neurips"}

\* Sizes of the body a PDF URL answers with
Bodies == {500, 5000, 20000}

\* The test of the early return of download_single_paper
exists_check(s, size) ==
    IF s = "iclr" THEN size # Absent /\ size > 10000 ELSE size # Absent

\* Whether download_pdf keeps a file of this size and returns True
accepts(s, size) == IF s = "iclr" THEN ~(size < 1000) ELSE TRUE

\* What a task meets: a record without a key (KeyError), no OpenReview link
\* on the page, a link without forum?id=, a PDF URL answering 404, or a PDF
\* URL answering 200 with a body.
TaskOutcomes == {"raises", "no_openreview", "no_pdf_url", "not_found", "body"}

BatchInit ==
    /\ site \in Sites
    /\ disk = [p \in Papers |-> Absent]
    /\ future_result = [p \in Papers |-> "pending"]
    /\ requests = [p \in Papers |-> 0]
    /\ collected = {}
    /\ batch_results = [success |-> {}, exists |-> {}, failed |-> {}]
    /\ batch_pc = "collecting"
    /\ run_no = 1
    /\ first_status = [p \in Papers |-> None]

TaskReturns(p, status, gets_sent) ==
    /\ future_result' = [future_result EXCEPT ![p] = status]
    /\ requests' = [requests EXCEPT ![p] = gets_sent]

\* download_single_paper(paper) in a worker thread; the pool runs every
\* submitted task, also while the with block is left by an exception.
RunTask(p) ==
    /\ batch_pc \in {"collecting", "raised"}
    /\ future_result[p] = "pending"
    /\ \E outcome \in TaskOutcomes, body \in Bodies :
         IF outcome = "raises"
         THEN TaskReturns(p, "raised", 0) /\ UNCHANGED disk
         ELSE IF exists_check(site, disk[p])
         THEN TaskReturns(p, "exists", 0) /\ UNCHANGED disk
         ELSE CASE outcome = "no_openreview" ->
                     TaskReturns(p, "no_openreview", 1) /\ UNCHANGED disk
                [] outcome = "no_pdf_url" ->
                     TaskReturns(p, "no_pdf_url", 1) /\ UNCHANGED disk
                [] outcome = "not_found" ->
                     TaskReturns(p, "download_failed", 2) /\ UNCHANGED disk
                [] outcome = "body" ->
                     IF accepts(site, body)
                     THEN /\ TaskReturns(p, "success", 2)
                          /\ disk' = [disk EXCEPT ![p] = body]
                     ELSE /\ TaskReturns(p, "download_failed", 2)
                          /\ disk' = [disk EXCEPT ![p] = Absent]
    /\ UNCHANGED <<site, collected, batch_results, batch_pc, run_no, first_status,
                   scrollVars, orchVars, matchVars, rateVars, searchVars, simVars,
                   runVars, urlVars, retryVars>>

\* The list the as_completed loop appends a returned status to
ListOf(status) ==
    IF status \in {"success", "exists"} THEN status ELSE "failed"

\* One iteration of `for future in as_completed(future_to_paper)`
CollectResult(p) ==
    /\ batch_pc = "collecting"
    /\ future_result[p] # "pending"
    /\ p \notin collected
    /\ collected' = collected \cup {p}
    /\ IF future_result[p] = "raised"
       THEN \* future.result() raises
            /\ batch_pc' = IF site = "iclr" THEN "collecting" ELSE "raised"
            /\ UNCHANGED batch_results
       ELSE /\ batch_results' =
                  [batch_results EXCEPT ![ListOf(future_result[p])] = @ \cup {p}]
            /\ UNCHANGED batch_pc
    /\ UNCHANGED <<site, disk, future_result, requests, run_no, first_status,
                   scrollVars, orchVars, matchVars, rateVars, searchVars, simVars,
                   runVars, urlVars, retryVars>>

\* return results
ReturnBatch ==
    /\ batch_pc = "collecting"
    /\ collected = Papers
    /\ batch_pc' = "returned"
    /\ UNCHANGED <<site, disk, future_result, requests, collected, batch_results,
                   run_no, first_status,
                   scrollVars, orchVars, matchVars, rateVars, searchVars, simVars,
                   runVars, urlVars, retryVars>>

\* The program is run again on the same save_dir
SecondRun ==
    /\ batch_pc = "returned"
    /\ run_no = 1
    /\ run_no' = 2
    /\ first_status' = future_result
    /\ future_result' = [p \in Papers |-> "pending"]
    /\ requests' = [p \in Papers |-> 0]
    /\ collected' = {}
    /\ batch_results' = [success |-> {}, exists |-> {}, failed |-> {}]
    /\ batch_pc' = "collecting"
    /\ UNCHANGED <<site, disk,
                   scrollVars, orchVars, matchVars, rateVars, searchVars, simVars,
                   runVars, urlVars, retryVars>>

InitBatch == BatchInit /\ OrchIdle /\ MatchIdle /\ RateIdle /\ SearchIdle /\ SimIdle
                 /\ RunIdle /\ UrlIdle /\ RetryIdle /\ ScrollIdle

NextBatch ==
    \/ \E p \in Papers : RunTask(p)
    \/ \E p \in Papers : CollectResult(p)
    \/ ReturnBatch
    \/ SecondRun

SpecBatch == InitBatch /\ [][NextBatch]_vars

\* ========================================================================
\* The scroll loop of fetch_paper_list_selenium (src/cvpr.py)
\* ========================================================================

\* document.body.scrollHeight as the browser reports it
Heights == 1..MaxHeight

ScrollInit ==
    /\ last_height \in Heights
    /\ scroll_attempts = 0
    /\ scrolls = 0
    /\ scroll_pc = "loop"

\* One test of `while scroll_attempts < max_attempts` and, when it holds,
\* one iteration: scroll, wait, click, read new_height, count, maybe break.
\* A script or a lookup that raises leaves the function through its except
\* branch.
Scroll ==
    /\ scroll_pc = "loop"
    /\ IF ~(scroll_attempts < max_attempts)
       THEN /\ scroll_pc' = "parsed"
            /\ UNCHANGED <<last_height, scroll_attempts, scrolls>>
       ELSE \/ /\ scroll_pc' = "failed"
               /\ UNCHANGED <<last_height, scroll_attempts, scrolls>>
            \/ \E new_height \in Heights :
                 LET counted == IF new_height = last_height
                                THEN scroll_attempts + 1 ELSE 0
                 IN  /\ scroll_attempts' = counted
                     /\ last_height' = new_height
                     /\ scrolls' = IF scrolls < MaxScrolls THEN scrolls + 1 ELSE scrolls
                     /\ scroll_pc' = IF counted >= StableScrolls THEN "parsed" ELSE "loop"
    /\ UNCHANGED <<batchVars, orchVars, matchVars, rateVars, searchVars, simVars,
                   runVars, urlVars, retryVars>>

InitScroll == ScrollInit /\ OrchIdle /\ MatchIdle /\ RateIdle /\ SearchIdle /\ SimIdle
                  /\ RunIdle /\ UrlIdle /\ RetryIdle /\ BatchIdle

NextScroll == Scroll

\* Every iteration ends: the sleeps are finite and the browser answers or
\* raises.
SpecScroll == InitScroll /\ [][NextScroll]_vars /\ WF_vars(NextScroll)

\* ========================================================================
\* Properties
\* ========================================================================

Occurrences(seq, p) == Cardinality({ i \in DOMAIN seq : seq[i] = p })

NoRequests == [page |-> 0, search |-> 0, pdf |-> 0, waits |-> 0]

\* C1 (as claimed): every GET that search_arxiv sends to the search endpoint
\* comes after a rate-limit wait of its own, so two consecutive search GETs
\* of one downloader are at least arxiv_request_interval apart.
C1_SearchGetsAtLeastIntervalApart ==
    get_log.prev # 0 => get_log.last - get_log.prev >= arxiv_request_interval

\* C2 (as claimed): the gate is atomic, so no two threads leave it (write
\* arxiv_last_request_time and go on to their requests) less than
\* arxiv_request_interval apart.
C2_ThreadsLeaveGateIntervalApart ==
    (Len(writes) = 2 /\ writes[1].thread # writes[2].thread) =>
        writes[2].time - writes[1].time >= arxiv_request_interval

\* C3: with a single thread, the timestamps two consecutive calls of
\* wait_for_arxiv_rate_limit store differ by at least arxiv_request_interval.
C3_SingleThreadStampsIntervalApart ==
    (Cardinality(Threads) = 1 /\ Len(writes) = 2) =>
        writes[2].time - writes[1].time >= arxiv_request_interval

\* C3 witness: the single thread made its second call at once, slept, and
\* wrote a timestamp interval + the smallest jitter after the first.
C3_Witness ==
    /\ Threads = {1}
    /\ Len(writes) = 2
    /\ writes[2].time - writes[1].time = arxiv_request_interval + JitterMin

\* C4: the URL search_arxiv returns for a response is the href of an entry
\* whose combined score 0.7*title_score + 0.3*author_score is above 0.4.
C4_ReturnedEntryAboveThreshold ==
    (match_pc = "returned" /\ best_match # 0) =>
        /\ best_match \in DOMAIN entries
        /\ entries[best_match].has_pdf
        /\ total_score(entries[best_match]) > MatchThreshold

\* C4 witness: a URL is returned from a response that also holds an entry
\* with a PDF link and a combined score of exactly 0.4, first in the response.
C4_Witness ==
    /\ match_pc = "returned"
    /\ best_match > 1
    /\ entries[1].has_pdf
    /\ total_score(entries[1]) = MatchThreshold

Eligible == { i \in DOMAIN entries :
                entries[i].has_pdf /\ total_score(entries[i]) > MatchThreshold }

\* C5 (as claimed): the entry chosen for a response is a highest-scoring one
\* among the entries with a PDF link and a combined score above 0.4, and none
\* is chosen only if there is no such entry.
C5_BestEntryWithPdfLinkChosen ==
    match_pc = "returned" =>
        /\ best_match = 0 <=> Eligible = {}
        /\ best_match # 0 =>
              /\ best_match \in Eligible
              /\ \A j \in Eligible :
                    total_score(entries[j]) <= total_score(entries[best_match])

\* C6: after download_all_papers returns, every submitted paper is in exactly
\* one of results['success'], results['exists'], results['failed'] (a paper
\* whose task raised included), so the three lengths sum to the number of
\* papers submitted.
C6_EveryPaperInExactlyOneList ==
    main_pc = "returned" =>
        /\ \A p \in future_to_paper :
             Occurrences(results.success, p) + Occurrences(results.exists, p)
                 + Occurrences(results.failed, p) = 1
        /\ Len(results.success) + Len(results.exists) + Len(results.failed)
               = Cardinality(future_to_paper)

\* C6 witness: the call returned with one paper whose task raised and one
\* paper downloaded.
C6_Witness ==
    /\ main_pc = "returned"
    /\ \E p \in future_to_paper : result[p] = Scraped /\ Occurrences(results.failed, p) = 1
    /\ \E p \in future_to_paper : result[p].download_status = "success"

\* C7: a download_single_paper call that finds pdf_filename on disk returns
\* status exists, method existing, and sends no request and does no rate-limit
\* wait; so a paper that ended in success in the first run sends no request in
\* the second run.
C7_ExistingFileNoRequests ==
    /\ [](\A p \in future_to_paper :
            /\ result[p].download_status = "exists" =>
                   result[p].download_method = "existing" /\ gets[p] = NoRequests
            /\ first_run[p] = "success" =>
                   /\ gets[p] = NoRequests
                   /\ pc[p] \in {"done", "collected"} => result[p].download_status = "exists")
    /\ [][\A p \in future_to_paper :
            (pc[p] = "queued" /\ pc'[p] # "queued" /\ keys[p] # "no_title" /\ file[p].exists) =>
                /\ pc'[p] = "done"
                /\ result'[p].download_status = "exists"
                /\ gets'[p] = gets[p]]_vars

\* C7 witness: the second resolution of a paper of which the first ended in
\* success has returned.
C7_Witness ==
    /\ first_run[1] = "success"
    /\ pc[1] = "done"
    /\ result[1].download_status = "exists"

\* C8 (as claimed): a paper is reported as exists only when the file at its
\* target path has a plausible size; a zero-length or truncated file does not
\* end the resolution as exists.
C8_ExistsOnlyForPlausibleSize ==
    \A p \in future_to_paper :
        result[p].download_status = "exists" => ~TooSmall(file[p].size)

\* C9: whenever Method 1 gives no verified PDF (the page fetch fails, no
\* OpenReview link, a link without forum?id=, download_pdf rejects the direct
\* URL), download_single_paper goes on to the arXiv search; it leaves Method 1
\* for a final status only with a verified download.
C9_DirectFailureFallsThroughToSearch ==
    [][\A p \in future_to_paper :
         (pc[p] \in {"lookup", "dl_direct"} /\ pc'[p] \notin {"lookup", "dl_direct"}) =>
             \/ pc'[p] = "search"
             \/ /\ pc[p] = "dl_direct"
                /\ pc'[p] = "done"
                /\ result'[p].download_status = "success"
                /\ result'[p].download_method = "openreview"
                /\ file'[p].exists /\ ~TooSmall(file'[p].size)]_vars

\* C9 witness: download_pdf rejected the direct URL and the task is at the search.
C9_Witness ==
    pc[1] = "search" /\ gets[1].pdf = 1 /\ gets[1].page = 1

\* C10: when download_pdf rejects the URL the search returned, the paper ends
\* as failed at once: no further search query and no further download follow.
C10_RejectedSearchCandidateFails ==
    [][\A p \in future_to_paper :
         /\ (pc[p] = "dl_search" /\ pc'[p] # "dl_search"
                 /\ result'[p].download_status # "success") =>
                /\ pc'[p] = "done"
                /\ result'[p].download_status = "failed"
                /\ gets'[p].search = gets[p].search
                /\ gets'[p].pdf = gets[p].pdf + 1
         /\ (pc[p] \in {"done", "collected"} /\ pc'[p] \in {"done", "collected"}) =>
                gets'[p] = gets[p]]_vars

\* C10 witness: both the direct URL and the search URL were rejected.
C10_Witness ==
    /\ pc[1] = "done"
    /\ result[1].download_status = "failed"
    /\ gets[1].pdf = 2
    /\ gets[1].search >= 1

\* C11: a query variant whose GET raises (timeout), is answered with a status
\* other than 200 or with an HTML page ends only that variant: its response is
\* not parsed, the call goes on to the next variant, and None is returned
\* only after every variant was sent.
C11_FailedVariantEndsOnlyThatVariant ==
    [][/\ (search_pc = "query" /\ sent' = sent + 1
              /\ response' \in {"raises", "status", "html"}) =>
             /\ parsed' = parsed
             /\ search_pc' = "query"
             /\ strategy_idx' = strategy_idx + 1
             /\ search_result' = None
       /\ (search_pc = "query" /\ search_pc' = "returned" /\ search_result' = None) =>
             sent' = Len(search_strategies)]_vars

\* C11 witness: the first two variants failed unparsed, the second of them
\* blocked, and the call is at the third variant.
C11_Witness ==
    /\ search_pc = "query"
    /\ response = "html"
    /\ sent = 2
    /\ parsed = 0
    /\ strategy_idx = 3
    /\ Len(search_strategies) = 3

\* C15 (amended): a clean title of 1 to 5 tokens gets exactly 2 query
\* variants; one of more than 5 tokens gets 3 when it holds an important
\* word, the third built from at most MaxImportantWords of them, and 2 when
\* it holds none.
C15_VariantsByLengthAndImportantWords ==
    search_pc \in {"query", "returned"} =>
        /\ (clean_title.tokens >= 1 /\ clean_title.tokens <= 5) =>
               Len(search_strategies) = 2
        /\ (clean_title.tokens > 5 /\ title.long_words > 0) =>
               /\ Len(search_strategies) = 3
               /\ search_strategies[3].words >= 1
               /\ search_strategies[3].words <= MaxImportantWords
               /\ search_strategies[3].words <= title.long_words
        /\ (clean_title.tokens > 5 /\ title.long_words = 0) =>
               Len(search_strategies) = 2

\* C15 witness: a title of 8 tokens, 6 of them important, with its 3 variants.
C15_Witness ==
    /\ search_pc = "query"
    /\ clean_title.tokens = 8
    /\ title.long_words = 6
    /\ Len(search_strategies) = 3
    /\ search_strategies[3].words = MaxImportantWords

\* C15 (as claimed): a clean title of at most 5 tokens gets exactly 2 query
\* variants and every clean title of more than 5 tokens gets exactly 3.
C15_ThreeVariantsForEveryLongTitle ==
    search_pc \in {"query", "returned"} =>
        /\ (clean_title.tokens >= 1 /\ clean_title.tokens <= 5) =>
               Len(search_strategies) = 2
        /\ clean_title.tokens > 5 =>
               /\ Len(search_strategies) = 3
               /\ search_strategies[3].words <= MaxImportantWords

\* C16: when cleaning leaves the empty string, search_arxiv builds no query,
\* sends no request and returns None.
C16_EmptyCleanTitleSendsNothing ==
    (search_pc \in {"query", "returned"} /\ clean_title.tokens = 0) =>
        /\ search_pc = "returned"
        /\ search_result = None
        /\ search_strategies = <<>>
        /\ sent = 0

\* C16 witness: a title of punctuation and a conference name was cleaned to
\* nothing and the call returned.
C16_Witness ==
    /\ search_pc = "returned"
    /\ title.punctuation
    /\ title.conference_words = 1
    /\ clean_title.tokens = 0

\* A step in which download_pdf is called for paper p
DownloadStep(p) == gets'[p].pdf = gets[p].pdf + 1

\* download_pdf opened the target file for the response
Opened(resp) == ~resp.raises /\ resp.status = 200 /\ ~resp.html /\ resp.magic

\* C12: when the response to a PDF URL has content type text/html,
\* download_pdf returns False and neither creates nor writes the target file.
C12_HtmlResponseWritesNothing ==
    [][\A p \in future_to_paper :
         (DownloadStep(p) /\ ~pdf_response'.raises /\ pdf_response'.status = 200
                /\ pdf_response'.html) =>
             /\ file'[p] = file[p]
             /\ result'[p].download_status # "success"]_vars

\* C12 witness: an HTML response whose body starts with %PDF was rejected and
\* there is no file.
C12_Witness ==
    /\ pdf_response.status = 200
    /\ pdf_response.html /\ pdf_response.magic
    /\ gets[1].pdf = 1
    /\ pc[1] = "search"
    /\ ~file[1].exists

\* C13: download_pdf writes the target file only if the first 100 bytes of
\* the body hold %PDF; a body without it is rejected without a write, with
\* or without 'captcha' or 'robot' in it.
C13_NoWriteWithoutPdfSignature ==
    [][\A p \in future_to_paper :
         DownloadStep(p) =>
             /\ file'[p] # file[p] => pdf_response'.magic
             /\ (~pdf_response'.raises /\ pdf_response'.status = 200
                    /\ ~pdf_response'.magic) =>
                   /\ file'[p] = file[p]
                   /\ result'[p].download_status # "success"]_vars

\* C13 witness: a body without %PDF that mentions captcha was rejected and
\* there is no file.
C13_Witness ==
    /\ pdf_response.status = 200 /\ ~pdf_response.html
    /\ ~pdf_response.magic /\ pdf_response.captcha
    /\ gets[1].pdf = 1
    /\ pc[1] = "search"
    /\ ~file[1].exists

\* C14 (as claimed): when the file download_pdf wrote is smaller than
\* MinPdfSize, download_pdf returns False and the file is gone when it
\* returns; it returns True only for a file of at least MinPdfSize bytes.
C14_SmallFileRejectedAndRemoved ==
    [][\A p \in future_to_paper :
         DownloadStep(p) =>
             /\ (Opened(pdf_response') /\ TooSmall(IF pdf_response'.write_fails
                                                   THEN pdf_response'.written
                                                   ELSE pdf_response'.size)) =>
                   /\ result'[p].download_status # "success"
                   /\ ~file'[p].exists
             /\ (result'[p].download_status = "success") =>
                   file'[p].exists /\ ~TooSmall(file'[p].size)]_vars

\* Two returned numbers are equal
SameScore(r, s) ==
    /\ r # Raised /\ s # Raised
    /\ r.num * s.den = s.num * r.den

\* C17: title_similarity(t, t) = 1 for every title t that normalizes to at
\* least one token, repeated tokens included.
C17_TitleSimilarityReflexive ==
    (sim_pc = "title_done" /\ text1 = text2 /\ Split(text1) # <<>>) =>
        /\ score # Raised
        /\ score.num = score.den

\* C17 witness: a title compared with itself whose tokens repeat after
\* lower-casing, with punctuation in it.
C17_Witness ==
    /\ sim_pc = "title_done"
    /\ text1 = <<"a", "!", "A">>
    /\ text2 = text1
    /\ score.num = score.den

\* C18: title_similarity(a, b) = title_similarity(b, a) for all titles, and
\* so are its Jaccard component and its LCS sequence component.
C18_TitleSimilaritySymmetric ==
    sim_pc = "title_done" =>
        /\ SameScore(score, title_similarity(text2, text1))
        /\ SameScore(sequence_similarity(Split(text1), Split(text2)),
                     sequence_similarity(Split(text2), Split(text1)))

\* C18 witness: two titles of different lengths that share a word, with a
\* score strictly between 0 and 1.
C18_Witness ==
    /\ sim_pc = "title_done"
    /\ Len(Split(text1)) = 1
    /\ Len(Split(text2)) = 3
    /\ score.num > 0
    /\ score.num < score.den

\* C19: title_similarity and author_similarity return 0 and do not raise
\* when an argument is empty or normalizes to no token (a title of
\* punctuation only, an author string without a capitalised word).
C19_EmptyInputScoresZero ==
    /\ sim_pc \in {"title_done", "authors_done"} => score # Raised
    /\ (sim_pc = "title_done" /\ (Split(text1) = <<>> \/ Split(text2) = <<>>)) =>
          score = Zero
    /\ (sim_pc = "authors_done"
           /\ (extract_last_names(text1) = {} \/ extract_last_names(text2) = {})) =>
          score = Zero

\* C19 witness: two titles of punctuation only were compared.
C19_Witness ==
    /\ sim_pc = "title_done"
    /\ text1 = <<"!">>
    /\ text2 = <<"!", "!">>
    /\ score = Zero

\* C20 (as claimed): once the main thread has observed a KeyboardInterrupt
\* in download_all_papers, no download_single_paper task that has not
\* started is started; only the tasks in flight go on.
C20_NoTaskStartedAfterInterrupt ==
    [][\A p \in future_to_paper :
         (main_pc \in {"shutting_down", "interrupted"} /\ pc[p] = "queued") =>
             pc'[p] = "queued"]_vars

\* What a failed record says about the failure: download_single_paper sets
\* download_status = 'failed' and download_method = 'none' and nothing else.
FailureReason(r) == r.download_method

\* C21 (as claimed): a paper that download_single_paper leaves in status
\* failed carries the reason of the failure: no_match when the search gave no
\* URL, download_error when the GET of the candidate failed, verify_failed
\* when its content was rejected.
C21_FailedResultCarriesReason ==
    [][\A p \in future_to_paper :
         (result'[p].download_status = "failed" /\ result[p].download_status # "failed") =>
             FailureReason(result'[p]) =
                 IF pc[p] = "search" THEN "no_match"
                 ELSE IF pdf_response'.raises \/ pdf_response'.status # 200
                      THEN "download_error"
                      ELSE "verify_failed"]_vars

\* C22: a fetch failure in get_paper_list (the GET raises, or a status
\* other than 200) yields an empty list and never aborts the run: the loop
\* goes on to the next event type with no paper added.
C22_FetchFailureYieldsEmptyList ==
    [][(run_pc = "listing" /\ event_idx <= NumEventTypes
            /\ listing' \in {"raises", "status"}) =>
          (run_pc' = "listing" /\ all_papers' = all_papers
            /\ event_idx' = event_idx + 1)]_vars

\* C27: for every results value, the all-empty one included,
\* generate_summary_report completes and writes a report whose total is
\* success + exists + failed and whose download_methods counts sum to
\* successful_downloads.
C27_ReportForEveryResults ==
    [][run_pc = "report" =>
          /\ run_pc' = "done"
          /\ report'.total_papers =
                Len(run_results.success) + run_results.exists + run_results.failed
          /\ report'.download_methods["openreview"] + report'.download_methods["arxiv"]
                = report'.successful_downloads]_vars

\* The text of s after its first 'forum?id=' up to the next piece of
\* stops, or to the end
IdUntil(s, stops) ==
    LET i == find(s, ForumId, 1)
        ends == { j \in (i + 1)..Len(s) : s[j] \in stops } \cup {Len(s) + 1}
        j == CHOOSE e \in ends : \A f \in ends : e <= f
    IN SubSeq(s, i + 1, j - 1)

\* C23 as stated: every URL containing 'forum?id=<ID>' is mapped to
\* 'https://openreview.net/pdf?id=<ID>' with <ID> the text between the
\* first 'forum?id=' and the next '&'; None for a URL without 'forum?id='
\* and for an empty or missing URL.
C23_IdUpToNextAmpersand ==
    url_pc = "returned" =>
        IF ~url_in.is_none /\ Contains(url_in.value, ForumId)
        THEN url_out = Str(<<PdfPrefix>> \o IdUntil(url_in.value, {Amp}))
        ELSE url_out = NoneValue

\* C23 amended: <ID> is the text between the first 'forum?id=' and the
\* next '&' or the next 'forum?id=', whichever comes first; None for a URL
\* without 'forum?id=' and for an empty or missing URL.  The result is a
\* function of the input URL.
C23_IdUpToNextAmpersandOrMarker ==
    url_pc = "returned" =>
        IF ~url_in.is_none /\ Contains(url_in.value, ForumId)
        THEN url_out = Str(<<PdfPrefix>> \o IdUntil(url_in.value, {Amp, ForumId}))
        ELSE url_out = NoneValue

\* A URL with 'forum?id=' twice before any '&' was converted.
C23_Witness ==
    /\ url_pc = "returned"
    /\ ~url_in.is_none
    /\ Len(split(url_in.value, ForumId)) > 2
    /\ find(url_in.value, Amp, 1) > find(url_in.value, ForumId, find(url_in.value, ForumId, 1) + 1)
    /\ ~url_out.is_none

\* C24: a result with download_status success has download_method
\* 'openreview' exactly when the accepted URL came from the direct lookup
\* and 'arxiv' exactly when it came from the search, pdf_url is the URL
\* whose download_pdf call returned True, and local_pdf_path is set; a
\* failed result has download_method 'none' and no local_pdf_path.
C24_ResultRecordsMethodAndUrl ==
    [][\A p \in future_to_paper :
         result'[p] # result[p] =>
            CASE result'[p].download_status = "success" ->
                   /\ result'[p].local_pdf_path
                   /\ download_pdf(pdf_response', file[p]).ok
                   /\ result'[p].download_method = "openreview" <=> pc[p] = "dl_direct"
                   /\ result'[p].download_method = "arxiv" <=> pc[p] = "dl_search"
                   /\ pc[p] \in {"dl_direct", "dl_search"}
                   /\ result'[p].pdf_url =
                        IF pc[p] = "dl_direct"
                        THEN get_pdf_url_from_openreview("openreview.net/forum?id=X&noteId=Y")
                        ELSE "arxiv.org/pdf"
              [] result'[p].download_status = "failed" ->
                   /\ result'[p].download_method = "none"
                   /\ ~result'[p].local_pdf_path
              [] OTHER -> TRUE]_vars

\* A paper whose direct download was rejected and whose search candidate
\* was accepted carries method 'arxiv'.
C24_Witness ==
    \E p \in future_to_paper :
        /\ pc[p] = "done"
        /\ result[p].download_status = "success"
        /\ result[p].download_method = "arxiv"
        /\ result[p].local_pdf_path
        /\ gets[p].pdf = 2

\* C25: no arXiv search request is sent (and no rate-limit wait started)
\* for a paper before its direct lookup, and the direct download if there
\* was a link, have finished without success; a paper recorded with method
\* 'openreview' has sent none.
C25_SearchOnlyAfterDirectFailed ==
    [][\A p \in future_to_paper :
         /\ (gets'[p].search > gets[p].search \/ gets'[p].waits > gets[p].waits) =>
               /\ pc[p] = "search"
               /\ gets[p].page = 1
               /\ gets[p].pdf <= 1
               /\ gets[p].pdf = 1 => ~download_pdf(pdf_response, NoFile).ok
               /\ result[p].download_status # "success"
         /\ result'[p].download_method = "openreview" =>
               gets'[p].search = 0 /\ gets'[p].waits = 0]_vars

\* A search request was sent for a paper whose direct download had been
\* rejected.
C25_Witness ==
    \E p \in future_to_paper :
        /\ gets[p].search >= 1
        /\ gets[p].page = 1
        /\ gets[p].pdf = 1
        /\ pc[p] = "dl_search"

\* C26: download_pdf of iclr_oral.py and of neurips_oral.py sends at most
\* max_retries GETs for one URL whatever the responses are, always
\* returns, and after the last attempt failed returns False; it never
\* leaves by an exception.
C26_BoundedRetriesThenFalse ==
    /\ [](downloader \in {"iclr", "neurips"} =>
            /\ requests_sent <= max_retries
            /\ requests_sent <= attempt + 1
            /\ retry_pc \in {"called", "loop", "returned"}
            /\ retry_pc = "returned" => retry_result \in Booleans
            /\ (retry_pc = "returned" /\ retry_result = "True") =>
                   retry_file \in {"pdf", "small"})
    /\ [][(downloader \in {"iclr", "neurips"} /\ retry_pc = "loop" /\ ~InRange(attempt)) =>
            (retry_pc' = "returned" /\ retry_result' = "False")]_vars
    /\ (downloader \in {"iclr", "neurips"} ~> retry_pc = "returned")

\* download_pdf returned False after max_retries GETs, each followed by a
\* retry.
C26_Witness ==
    /\ downloader \in {"iclr", "neurips"}
    /\ retry_pc = "returned"
    /\ requests_sent = max_retries
    /\ attempt = max_retries
    /\ retry_result = "False"

\* C28: arxiv_last_request_time is written by wait_for_arxiv_rate_limit
\* after the sleep, if any, has finished, with the time of that moment,
\* and a thread sends the first request of a search only after it has
\* written it.
C28_StampAfterSleepBeforeRequest ==
    [][/\ \A w \in Threads :
            /\ (rl_pc'[w] = "clean" /\ rl_pc[w] # "clean") =>
                  /\ rl_pc[w] = "stamp"
                  /\ now >= wake_time[w]
                  /\ arxiv_last_request_time' = now
                  /\ writes'[Len(writes')] = [thread |-> w, time |-> now]
            /\ (rl_pc'[w] = "query" /\ rl_pc[w] # "query") => rl_pc[w] = "clean"
       /\ (arxiv_last_request_time' # arxiv_last_request_time \/ writes' # writes) =>
             \E w \in Threads : rl_pc[w] = "stamp" /\ rl_pc'[w] = "clean"
       /\ get_log' # get_log =>
             \E w \in Threads :
                /\ rl_pc[w] = "query"
                /\ \E i \in DOMAIN writes : writes[i].time <= now]_vars

\* One thread slept in its second call, and in both calls sent its first
\* request at the time it had just written.
C28_Witness ==
    /\ Len(writes) = 2
    /\ writes[1].thread = writes[2].thread
    /\ writes[2].time >= writes[1].time + arxiv_request_interval
    /\ get_log.prev = writes[1].time
    /\ get_log.last = writes[2].time

\* The entries with a PDF link whose combined score is above 0.4 and is the
\* highest of the response
TopWithLink ==
    { i \in DOMAIN entries :
        /\ entries[i].has_pdf
        /\ total_score(entries[i]) > MatchThreshold
        /\ \A k \in DOMAIN entries : total_score(entries[k]) <= total_score(entries[i]) }

\* C29: when two entries of a response, both with a PDF link, have the same
\* combined score above 0.4 and that score is the maximum, the link of the
\* one that comes first in the response is returned.
C29_FirstOfEqualBestReturned ==
    (match_pc = "returned" /\ Cardinality(TopWithLink) >= 2) =>
        /\ best_match \in TopWithLink
        /\ \A i \in TopWithLink : best_match <= i

RECURSIVE IsSubsequence(_, _, _, _)
IsSubsequence(s, t, m, n) ==
    IF m = 0 THEN TRUE
    ELSE IF n = 0 THEN FALSE
    ELSE \/ (s[m] = t[n] /\ IsSubsequence(s, t, m - 1, n - 1))
         \/ IsSubsequence(s, t, m, n - 1)

\* The length of a longest common subsequence of a and b, by enumeration of
\* the sequences over the tokens of a
LongestCommon(a, b) ==
    LET common == { s \in SeqsUpTo(SetOf(a), Len(a)) :
                      /\ IsSubsequence(s, a, Len(s), Len(a))
                      /\ IsSubsequence(s, b, Len(s), Len(b)) }
    IN  CHOOSE k \in 0..Len(a) :
          /\ \E s \in common : Len(s) = k
          /\ \A s \in common : Len(s) <= k

\* C31: for non-empty normalized token sequences a and b,
\* title_similarity(a, b) = 0.6 * |A n B| / |A u B|
\*                          + 0.4 * LCS(a, b) / max(len(a), len(b)),
\* with LCS the length of a true longest common subsequence, and the result
\* lies between 0 and 1.
C31_TitleSimilarityIsJaccardPlusLcs ==
    (sim_pc = "title_done" /\ Split(text1) # <<>> /\ Split(text2) # <<>>) =>
        LET a == Split(text1)
            b == Split(text2)
            inter == Cardinality(SetOf(a) \cap SetOf(b))
            union == Cardinality(SetOf(a) \cup SetOf(b))
            longer == Max(Len(a), Len(b))
        IN  /\ score # Raised
            /\ lcs_length(a, b, Len(a), Len(b)) = LongestCommon(a, b)
            /\ score.num * (10 * union * longer) =
                  (6 * inter * longer + 4 * LongestCommon(a, b) * union) * score.den
            /\ score.num >= 0
            /\ score.num <= score.den

\* Two titles whose longest common subsequence (2 tokens) is shorter than
\* both and is not a common prefix or suffix.
C31_Witness ==
    /\ sim_pc = "title_done"
    /\ Split(text1) = <<"a", "b", "a">>
    /\ Split(text2) = <<"b", "a", "b">>
    /\ score.num * 15 = 13 * score.den

\* How far download_single_paper has come
Progress(at) ==
    CASE at = "queued" -> 0
      [] at = "lookup" -> 1
      [] at = "dl_direct" -> 2
      [] at = "search" -> 3
      [] at = "dl_search" -> 4
      [] OTHER -> 5

\* C32: for one paper (a record as scraped, with all its keys),
\* download_single_paper sends at most 1 paper-page GET, at most 3 arXiv
\* search GETs and at most 2 PDF GETs whatever the responses are, and
\* returns with download_status success, exists or failed; every step of it
\* moves forward, none is repeated.
C32_BoundedRequestsThenStatus ==
    /\ [](\A p \in future_to_paper :
            /\ gets[p].page <= 1
            /\ gets[p].search <= 3
            /\ gets[p].pdf <= 2
            /\ (keys[p] = "all" /\ pc[p] \in {"done", "collected"}) =>
                   result[p].download_status \in {"success", "exists", "failed"}
            /\ keys[p] = "all" => pc[p] # "raised")
    /\ [][\A p \in future_to_paper :
            /\ (p \in Running \/ pc[p] = "queued") /\ pc'[p] # pc[p] =>
                   Progress(pc'[p]) > Progress(pc[p])
            /\ gets'[p] # gets[p] =>
                   \/ p \in Running /\ Progress(pc'[p]) > Progress(pc[p])
                   \/ main_pc = "returned"]_vars

\* A paper used its whole budget: 1 page GET, 3 search GETs, 2 PDF GETs.
C32_Witness ==
    \E p \in future_to_paper :
        /\ keys[p] = "all"
        /\ pc[p] = "done"
        /\ gets[p] = [page |-> 1, search |-> 3, pdf |-> 2, waits |-> 1]
        /\ result[p].download_status = "failed"

\* C33: when download_pdf fails after it has begun writing the target file
\* (an exception during the streamed write), the partly written file is
\* removed before it returns False, and no later download_single_paper call
\* for the paper reports exists on the strength of that file.
C33_PartialFileRemoved ==
    /\ [][\A p \in future_to_paper :
            (DownloadStep(p) /\ Opened(pdf_response') /\ pdf_response'.write_fails) =>
                /\ result'[p].download_status # "success"
                /\ ~file'[p].exists]_vars
    /\ [](\A p \in future_to_paper :
            first_run[p] = "failed" => result[p].download_status # "exists")

\* C34: in iclr_oral.py, a file download_pdf accepted as a successful
\* download is recognized as existing by a later download_single_paper call
\* for the same paper: the second resolution returns exists and sends no
\* request.
C34_AcceptedFileExistsOnSecondRun ==
    \A p \in Papers :
        (site = "iclr" /\ run_no = 2 /\ first_status[p] = "success"
             /\ future_result[p] \notin {"pending", "raised"}) =>
            /\ future_result[p] = "exists"
            /\ requests[p] = 0

\* C35: in download_all_papers of iclr_oral.py and neurips_oral.py every
\* submitted paper ends in exactly one of the lists success, exists, failed,
\* also when future.result() raises, and one paper's exception does not keep
\* the other papers from being classified.
C35_EveryPaperInOneList ==
    /\ batch_pc # "raised"
    /\ batch_pc = "returned" =>
          \A p \in Papers :
              Cardinality({ l \in {"success", "exists", "failed"} :
                              p \in batch_results[l] }) = 1

\* C36: in the retry loops of download_pdf in iclr_oral.py and
\* neurips_oral.py, two consecutive GETs for the same URL are separated by
\* the 2-second backoff, whether the earlier one failed by an exception or
\* by a status other than 200 and 404: when a GET is about to be sent,
\* every earlier GET was followed by a sleep.
C36_BackoffBetweenAttempts ==
    (downloader \in {"iclr", "neurips"} /\ retry_pc = "loop" /\ InRange(attempt)) =>
        sleeps = requests_sent

\* The scraped fields of a record
ScrapedFields(record) ==
    <<record.id, record.title, record.authors, record.paper_page_url>>

\* C37: download_single_paper never changes the scraped fields id, title,
\* authors and paper_page_url of a paper record: on the exists path it
\* returns an annotated copy and leaves the input record unchanged, and on
\* every other path it only adds the outcome fields.
C37_ScrapedFieldsKept ==
    /\ [](\A p \in future_to_paper :
            /\ ScrapedFields(paper[p]) = ScrapedFields(Scraped)
            /\ ScrapedFields(result[p]) = ScrapedFields(Scraped))
    /\ [][\A p \in future_to_paper :
            /\ (result'[p] # result[p] /\ result'[p].download_status = "exists") =>
                   /\ paper'[p] = paper[p]
                   /\ result'[p].local_pdf_path
                   /\ ScrapedFields(result'[p]) = ScrapedFields(paper[p])
            /\ paper'[p] # paper[p] =>
                   ScrapedFields(paper'[p]) = ScrapedFields(paper[p])]_vars

\* A paper returned as exists: the copy is annotated, the input record is
\* as scraped.
C37_Witness ==
    \E p \in future_to_paper :
        /\ pc[p] = "done"
        /\ result[p].download_status = "exists"
        /\ result[p].local_pdf_path
        /\ paper[p] = Scraped
        /\ first_run[p] = "success"

\* C38: a search_arxiv call that sends no request because the cleaned title
\* is empty leaves arxiv_last_request_time unchanged and does not sleep.  A
\* thread that has been through the sleep and has written the timestamp
\* (it is at the cleaning of the title) therefore goes on to send a query.
C38_EmptyTitleTakesNoSlot ==
    [][\A w \in Threads :
         (rl_pc[w] = "clean" /\ rl_pc'[w] # "clean") =>
             /\ rl_pc'[w] = "query"
             /\ queries_left'[w] >= 1]_vars

\* C39: the scroll loop of fetch_paper_list_selenium terminates for every
\* sequence of page heights the browser reports.
C39_ScrollLoopTerminates ==
    <>(scroll_pc # "loop")

====
